---- MODULE Spec2Model ----
(***************************************************************************)
(* Model of the polling server (eww/polling-server): per-cycle sampling of *)
(* CPU, network and disk counters, the delta/rate computation, the         *)
(* adaptive 0..10 level and the assembly of the per-cycle entry lists.     *)
(*                                                                         *)
(* Numbers.  An f64 is modelled exactly (no rounding) as a dyadic-scaled   *)
(* rational [n, d, k] = (n / d) * 2^k with n, d odd and coprime, d > 0     *)
(* (zero is [0, 1, 0]), so that the values the code produces from 512,     *)
(* 1e-8 and repeated halving stay inside TLC's integers.  Times (elapsed,  *)
(* time_below_half_max) are whole numbers of ticks of 1e-8 s.  The u64     *)
(* byte and sector counters are naturals far below 2^64 (no wrap inside    *)
(* the bounds); the u64 CPU ticks keep their full width, as four 16-bit    *)
(* limbs.  Strings are sequences of one-character strings.                 *)
(***************************************************************************)
EXTENDS Integers, Sequences, FiniteSets, TLC

VARIABLES
    net_prev,        \* network.rs: prev        HashMap iface -> NetCounters
    net_max_rates,   \* network.rs: max_rates   HashMap iface -> NetworkDeviceState
    net_entries,     \* network.rs: entries     Vec<NetworkEntry> of the last call
    net_call,        \* arguments and locals of the last calculate_network_rates call
    net_watch,       \* history: iface -> the value max_rate was last raised to and the
                     \* floored elapsed time of the idle cycles since
    disk_prev,       \* disk.rs: prev          HashMap device -> DiskCounters
    disk_max_rates,  \* disk.rs: max_rates     HashMap device -> DiskDeviceState
    disk_entries,    \* disk.rs: entries       Vec<DiskEntry> of the last call
    disk_call,       \* arguments and locals of the last calculate_disk_rates call
    disk_watch,      \* history, as net_watch
    cpu_prev,        \* main.rs: cpu_prev     Vec<Option<CpuCounters>>, as index -> sample
    cpu_entries,     \* main.rs: cpu_entries  Vec<CpuEntry> of the last call
    cpu_call,        \* the lines of the buffer of the last collect_cpu call and, per
                     \* accepted line, the index, counters, sample read and usage
    seen_active,     \* history: the interfaces and devices that have shown a combined
                     \* rate above 0 in some cycle so far
    fn_call,         \* a call of a pure function: its name, arguments and result
    calls,           \* number of calls made so far to network.rs and to disk.rs
    main_loop        \* main.rs: the position of main in its loop, the locals elapsed,
                     \* memory and payload, what the last write_payload put on
                     \* stdout, the operation that failed and what main returned

net_vars == <<net_prev, net_max_rates, net_entries, net_call, net_watch>>

disk_vars == <<disk_prev, disk_max_rates, disk_entries, disk_call, disk_watch>>

cpu_vars == <<cpu_prev, cpu_entries, cpu_call>>

vars == <<net_vars, disk_vars, cpu_vars, seen_active, fn_call, calls, main_loop>>

----------------------------------------------------------------------------
(* Bounds of the model *)

MaxCalls == 4
MaxCounter == 1

----------------------------------------------------------------------------
(* Exact arithmetic standing for f64 *)

Abs(x) == IF x < 0 THEN 0 - x ELSE x

Sgn(x) == IF x < 0 THEN 0 - 1 ELSE IF x = 0 THEN 0 ELSE 1

RECURSIVE Gcd(_, _)
Gcd(a, b) == IF b = 0 THEN a ELSE Gcd(b, a % b)

RECURSIVE TwoAdic(_)
TwoAdic(x) == IF x % 2 = 0 THEN 1 + TwoAdic(x \div 2) ELSE 0

RECURSIVE Pow2(_)
Pow2(e) == IF e = 0 THEN 1 ELSE 2 * Pow2(e - 1)

Norm(n, d, k) ==
    IF n = 0 THEN [n |-> 0, d |-> 1, k |-> 0]
    ELSE LET an == Abs(n)
             e1 == TwoAdic(an)
             e2 == TwoAdic(d)
             n1 == an \div Pow2(e1)
             d1 == d \div Pow2(e2)
             g  == Gcd(n1, d1)
         IN  [n |-> Sgn(n) * (n1 \div g), d |-> d1 \div g, k |-> (k + e1) - e2]

\* `x as f64` for an integer x
F64(x) == Norm(x, 1, 0)

FZero == F64(0)

FOne == F64(1)

FNeg(a) == [a EXCEPT !.n = 0 - a.n]

FMul(a, b) == Norm(a.n * b.n, a.d * b.d, a.k + b.k)

\* a / b for b # 0
FDiv(a, b) == Norm(a.n * b.d * Sgn(b.n), a.d * Abs(b.n), a.k - b.k)

\* x * 2^s < y for naturals x, y and s >= 0, without forming x * 2^s
RECURSIVE ShiftLess(_, _, _)
ShiftLess(x, s, y) ==
    IF x >= y THEN FALSE
    ELSE IF s = 0 THEN TRUE
    ELSE ShiftLess(2 * x, s - 1, y)

\* x * 2^s <= y for naturals x, y and s >= 0
RECURSIVE ShiftLeq(_, _, _)
ShiftLeq(x, s, y) ==
    IF x > y THEN FALSE
    ELSE IF s = 0 THEN TRUE
    ELSE ShiftLeq(2 * x, s - 1, y)

\* a < b for a, b > 0
PosLess(a, b) ==
    LET x == a.n * b.d
        y == b.n * a.d
        s == a.k - b.k
    IN  IF s >= 0 THEN ShiftLess(x, s, y) ELSE ~ShiftLeq(y, 0 - s, x)

FLess(a, b) ==
    IF a.n < 0 THEN (b.n >= 0 \/ PosLess(FNeg(b), FNeg(a)))
    ELSE IF a.n = 0 THEN b.n > 0
    ELSE (b.n > 0 /\ PosLess(a, b))

FLeq(a, b) == ~FLess(b, a)

\* f64::max, f64::min
FMax(a, b) == IF FLess(a, b) THEN b ELSE a

FMin(a, b) == IF FLess(b, a) THEN b ELSE a

\* f64::ceil followed by `as u8`, for 0 <= x <= 255: 0 for 0, 1 for every
\* 0 < x <= 1, and ceil(n * 2^k / d) above 1 (where the quotient is small)
CeilU8(x) ==
    IF x.n = 0 THEN 0
    ELSE IF ~FLess(FOne, x) THEN 1
    ELSE LET num == IF x.k >= 0 THEN x.n * Pow2(x.k) ELSE x.n
             den == IF x.k >= 0 THEN x.d ELSE x.d * Pow2(0 - x.k)
         IN  ((num + den) - 1) \div den

----------------------------------------------------------------------------
(* Time *)

\* 1 tick = 1e-8 s, the floor of elapsed (network.rs:122, disk.rs:110)
TicksPerSec == 100000000

\* constants.rs: RATE_DECAY_TIME_SECS
RATE_DECAY_TIME_SECS == 10

\* a number of ticks as f64 seconds
Secs(t) == Norm(t, TicksPerSec, 0)

\* (mutant) the elapsed time taken as it is given
FloorElapsed_none(elapsed) == elapsed

\* elapsed.max(1e-8)
FloorElapsed(elapsed) == IF elapsed < 1 THEN 1 ELSE elapsed

----------------------------------------------------------------------------
(* Maps and sequences *)

EmptyMap == [x \in {} |-> 0]

Put(m, key, v) == [x \in (DOMAIN m) \cup {key} |-> IF x = key THEN v ELSE m[x]]

Range(s) == {s[i] : i \in DOMAIN s}

\* the orders in which a HashMap with key set S can be iterated
Orders(S) == {o \in [1..Cardinality(S) -> S] : Range(o) = S}

----------------------------------------------------------------------------
(* Strings: sequences of one-character strings, compared as bytes *)

\* the bytes the model's strings are made of, in ascending byte order
ByteOrder ==
    <<"\n", " ", "-", ":", "0", "1", "2", "3", "4", "5", "6", "7", "8", "9",
      "a", "b", "c", "d", "e", "h", "i", "l", "m", "n", "o", "p", "r", "s", "t",
      "u", "v", "w">>

ByteRank == [c \in Range(ByteOrder) |-> CHOOSE i \in DOMAIN ByteOrder : ByteOrder[i] = c]

is_ascii_digit(c) == c \in {"0", "1", "2", "3", "4", "5", "6", "7", "8", "9"}

\* b - b'0' for a digit b
DigitValue(c) == ByteRank[c] - ByteRank["0"]

DigitChar(n) == ByteOrder[ByteRank["0"] + n]

starts_with(s, prefix) ==
    Len(s) >= Len(prefix) /\ SubSeq(s, 1, Len(prefix)) = prefix

\* str::cmp, the lexicographic order of the bytes: -1, 0 or 1
RECURSIVE StrCmp(_, _)
StrCmp(a, b) ==
    IF a = <<>> THEN (IF b = <<>> THEN 0 ELSE 0 - 1)
    ELSE IF b = <<>> THEN 1
    ELSE IF ByteRank[Head(a)] < ByteRank[Head(b)] THEN 0 - 1
    ELSE IF ByteRank[Head(a)] > ByteRank[Head(b)] THEN 1
    ELSE StrCmp(Tail(a), Tail(b))

----------------------------------------------------------------------------
(* u64: four 16-bit limbs, least significant first, so that the full width *)
(* is kept: wrapping_mul, wrapping_add, saturating_sub, *, / as on u64     *)

U64Limb == Pow2(16)

\* a natural below 2^31 as u64
U64(n) == <<n % U64Limb, n \div U64Limb, 0, 0>>

U64Zero == U64(0)

\* a < b, comparing the limbs i, i-1, .., 1
RECURSIVE LimbsLess(_, _, _)
LimbsLess(a, b, i) ==
    IF i = 0 THEN FALSE
    ELSE IF a[i] # b[i] THEN a[i] < b[i]
    ELSE LimbsLess(a, b, i - 1)

\* a - b for a >= b, from limb i on
RECURSIVE LimbsSub(_, _, _, _)
LimbsSub(a, b, i, borrow) ==
    IF i > Len(a) THEN <<>>
    ELSE IF (a[i] - b[i]) - borrow < 0
    THEN <<((a[i] - b[i]) - borrow) + U64Limb>> \o LimbsSub(a, b, i + 1, 1)
    ELSE <<(a[i] - b[i]) - borrow>> \o LimbsSub(a, b, i + 1, 0)

\* a + b from limb i on, with the carry out as one more limb
RECURSIVE LimbsAdd(_, _, _, _)
LimbsAdd(a, b, i, carry) ==
    IF i > Len(a) THEN <<carry>>
    ELSE <<((a[i] + b[i]) + carry) % U64Limb>>
         \o LimbsAdd(a, b, i + 1, ((a[i] + b[i]) + carry) \div U64Limb)

\* a * m for a natural m < 2^15, from limb i on, with the carry out as one more limb
RECURSIVE LimbsMul(_, _, _, _)
LimbsMul(a, m, i, carry) ==
    IF i > Len(a) THEN <<carry>>
    ELSE <<(a[i] * m + carry) % U64Limb>>
         \o LimbsMul(a, m, i + 1, (a[i] * m + carry) \div U64Limb)

saturating_sub(a, b) == IF LimbsLess(a, b, 4) THEN U64Zero ELSE LimbsSub(a, b, 1, 0)

wrapping_add(a, b) == SubSeq(LimbsAdd(a, b, 1, 0), 1, 4)

wrapping_mul(a, m) == SubSeq(LimbsMul(a, m, 1, 0), 1, 4)

\* a * m exceeds u64: the build with overflow checks panics, the others wrap
mul_overflows(a, m) == LimbsMul(a, m, 1, 0)[5] # 0

\* q * d <= w, for a natural q < 2^15
LimbsFits(q, d, w) == ~LimbsLess(w \o <<0>>, LimbsMul(d, q, 1, 0), 5)

\* the largest q in lo..hi with q * d <= w, given lo * d <= w
RECURSIVE u64_div_search(_, _, _, _)
u64_div_search(w, d, lo, hi) ==
    IF lo = hi THEN lo
    ELSE IF LimbsFits((lo + hi + 1) \div 2, d, w)
    THEN u64_div_search(w, d, (lo + hi + 1) \div 2, hi)
    ELSE u64_div_search(w, d, lo, ((lo + hi + 1) \div 2) - 1)

\* w / d on u64 for d # 0 and a quotient of at most `most`
u64_div(w, d, most) == u64_div_search(w, d, 0, most)

----------------------------------------------------------------------------
(* Inputs of the model *)

ETH0 == <<"e", "t", "h", "0">>

WLAN0 == <<"w", "l", "a", "n", "0">>

NetIfaces == {ETH0}

SDA == <<"s", "d", "a">>

DiskDevices == {SDA}

\* the readings (counter a, counter b) an entity can show
CounterPairs == {p \in (0..MaxCounter) \X (0..MaxCounter) : p[1] + p[2] <= MaxCounter}

\* elapsed seconds handed to a cycle, in ticks: negative, zero, 5 s, 11 s
ElapsedInputs == {0 - TicksPerSec, 0, 5 * TicksPerSec, 11 * TicksPerSec}

\* the HashMaps parse_network can return over the model's interfaces
NetParsedInputs ==
    UNION {[S -> CounterPairs] : S \in SUBSET NetIfaces}

\* the HashMaps parse_disks can return over the model's devices
DiskParsedInputs ==
    UNION {[S -> CounterPairs] : S \in SUBSET DiskDevices}

----------------------------------------------------------------------------
(* History of raises: kept for every processed entity whose max_rate went up *)
(* in this cycle, or was raised earlier and has since shown only zero rates  *)
(* for less than the decay time                                              *)

DecayTicks == RATE_DECAY_TIME_SECS * TicksPerSec

Watch(watch, processed, old_states, new_states, rates, elapsed) ==
    LET old_max(i) == IF i \in DOMAIN old_states THEN old_states[i].max_rate ELSE FOne
        raised(i)  == FLess(old_max(i), new_states[i].max_rate)
        idle(i)    == rates[i][1] = FZero /\ rates[i][2] = FZero
        keep       == {i \in (DOMAIN watch) \cup processed :
                          \/ i \notin processed
                          \/ raised(i)
                          \/ i \in DOMAIN watch /\ idle(i) /\ watch[i].since < DecayTicks}
    IN  [i \in keep |->
            IF i \notin processed THEN watch[i]
            ELSE IF raised(i) THEN [raised_to |-> new_states[i].max_rate, since |-> 0]
            ELSE [watch[i] EXCEPT !.since = @ + elapsed]]

\* the entities whose combined rate max(rate_a, rate_b) is above 0 in `rates`
Active(rates) ==
    {i \in DOMAIN rates : FLess(FZero, FMax(rates[i][1], rates[i][2]))}

----------------------------------------------------------------------------
(* network.rs *)

NetworkDeviceState_new ==
    [max_rate |-> FOne, time_below_half_max |-> 0, has_had_traffic |-> FALSE]

\* (mutant) a decreased counter reported as the size of the drop
calculate_network_throughput_abs(rx_bytes, tx_bytes, prev_rx, prev_tx, elapsed) ==
    <<FDiv(F64(Abs(rx_bytes - prev_rx)), Secs(elapsed)),
      FDiv(F64(Abs(tx_bytes - prev_tx)), Secs(elapsed))>>

calculate_network_throughput(rx_bytes, tx_bytes, prev_rx, prev_tx, elapsed) ==
    LET rx_rate == IF rx_bytes >= prev_rx
                   THEN FDiv(F64(rx_bytes - prev_rx), Secs(elapsed))
                   ELSE FZero
        tx_rate == IF tx_bytes >= prev_tx
                   THEN FDiv(F64(tx_bytes - prev_tx), Secs(elapsed))
                   ELSE FZero
    IN  <<rx_rate, tx_rate>>

\* (mutant) the ratio taken the wrong way round
rate_to_level_swapped(rate, reference) ==
    IF FLeq(rate, FZero) \/ FLeq(reference, FZero) THEN 0
    ELSE LET ratio == FMin(FDiv(reference, rate), FOne)
             level == CeilU8(FMul(ratio, F64(10)))
         IN  IF level < 10 THEN level ELSE 10

\* network.rs:202-209
rate_to_level(rate, reference) ==
    IF FLeq(rate, FZero) \/ FLeq(reference, FZero) THEN 0
    ELSE LET ratio == FMin(FDiv(rate, reference), FOne)
             level == CeilU8(FMul(ratio, F64(10)))
         IN  IF level < 10 THEN level ELSE 10

\* network.rs:144-147
net_mark_traffic(state, combined_rate) ==
    IF FLess(FZero, combined_rate)
    THEN [state EXCEPT !.has_had_traffic = TRUE]
    ELSE state

\* (mutant) network.rs:149-157 without the raise of network.rs:150-152
net_update_max_noraise(state, combined_rate, elapsed) ==
    IF FLess(combined_rate, FDiv(state.max_rate, F64(2)))
    THEN [state EXCEPT !.time_below_half_max = @ + elapsed]
    ELSE [state EXCEPT !.time_below_half_max = 0]

\* network.rs:149-157
net_update_max(state, combined_rate, elapsed) ==
    IF FLess(state.max_rate, combined_rate)
    THEN [state EXCEPT !.max_rate = combined_rate, !.time_below_half_max = 0]
    ELSE IF FLess(combined_rate, FDiv(state.max_rate, F64(2)))
    THEN [state EXCEPT !.time_below_half_max = @ + elapsed]
    ELSE [state EXCEPT !.time_below_half_max = 0]

\* (mutant) decay only strictly above the decay time
net_decay_strict(state) ==
    IF state.time_below_half_max > RATE_DECAY_TIME_SECS * TicksPerSec
    THEN [state EXCEPT !.max_rate = FDiv(@, F64(2)), !.time_below_half_max = 0]
    ELSE state

\* (mutant) network.rs:159-163, halving once for every decay time that passed
net_decay_repeat(state) ==
    IF state.time_below_half_max >= 2 * RATE_DECAY_TIME_SECS * TicksPerSec
    THEN [state EXCEPT !.max_rate = FDiv(@, F64(4)), !.time_below_half_max = 0]
    ELSE IF state.time_below_half_max >= RATE_DECAY_TIME_SECS * TicksPerSec
    THEN [state EXCEPT !.max_rate = FDiv(@, F64(2)), !.time_below_half_max = 0]
    ELSE state

\* network.rs:159-163
net_decay(state) ==
    IF state.time_below_half_max >= RATE_DECAY_TIME_SECS * TicksPerSec
    THEN [state EXCEPT !.max_rate = FDiv(@, F64(2)), !.time_below_half_max = 0]
    ELSE state

\* network.rs:125-127: prev.entry(iface).or_insert(NetCounters { rx, tx })
net_or_insert_zero(prev, iface, rx_bytes, tx_bytes) ==
    IF iface \in DOMAIN prev THEN prev[iface] ELSE [rx |-> 0, tx |-> 0]

net_or_insert(prev, iface, rx_bytes, tx_bytes) ==
    IF iface \in DOMAIN prev THEN prev[iface] ELSE [rx |-> rx_bytes, tx |-> tx_bytes]

\* network.rs:144-163: the update of the interface's NetworkDeviceState
net_state(state0, combined_rate, elapsed) ==
    net_decay(net_update_max(net_mark_traffic(state0, combined_rate), combined_rate, elapsed))

\* network.rs:165-174: the entry of an interface
net_entry(iface, rx_rate, tx_rate, state) ==
    [iface    |-> iface,
     tx_level |-> rate_to_level(tx_rate, state.max_rate),
     rx_level |-> rate_to_level(rx_rate, state.max_rate),
     tx_mib_s |-> FDiv(tx_rate, F64(1048576)),
     rx_mib_s |-> FDiv(rx_rate, F64(1048576))]

\* network.rs:134-175: what an iteration stores, given the counters it read
\* (lines 132-133), its <<rx_rate, tx_rate>> and the updated state
net_store(st, iface, rx_bytes, tx_bytes, counters, rates, state) ==
    [prev      |-> Put(st.prev, iface, [rx |-> rx_bytes, tx |-> tx_bytes]),
     max_rates |-> Put(st.max_rates, iface, state),
     entries   |-> IF state.has_had_traffic
                   THEN Append(st.entries, net_entry(iface, rates[1], rates[2], state))
                   ELSE st.entries,
     before    |-> Put(st.before, iface, <<counters.rx, counters.tx>>),
     rates     |-> Put(st.rates, iface, rates)]

\* (mutant) network.rs:139-163 updating the state of an interface handled
\* earlier in the same call, where there is one
net_measure_shared(st, iface, rx_bytes, tx_bytes, elapsed, counters, rates) ==
    net_store(st, iface, rx_bytes, tx_bytes, counters, rates,
              net_state(IF DOMAIN st.rates # {}
                        THEN st.max_rates[CHOOSE j \in DOMAIN st.rates : TRUE]
                        ELSE IF iface \in DOMAIN st.max_rates
                        THEN st.max_rates[iface]
                        ELSE NetworkDeviceState_new,
                        FMax(rates[1], rates[2]), elapsed))

\* network.rs:139-163: max_rates.entry(iface).or_insert_with(new), then the
\* update by combined_rate = rx_rate.max(tx_rate)
net_measure(st, iface, rx_bytes, tx_bytes, elapsed, counters, rates) ==
    net_store(st, iface, rx_bytes, tx_bytes, counters, rates,
              net_state(IF iface \in DOMAIN st.max_rates
                        THEN st.max_rates[iface]
                        ELSE NetworkDeviceState_new,
                        FMax(rates[1], rates[2]), elapsed))

\* one iteration of the loop of calculate_network_rates (network.rs:124-175);
\* st = [prev, max_rates, entries, before, rates], before and rates recording
\* the locals of each iteration
net_iteration(st, iface, rx_bytes, tx_bytes, elapsed) ==
    LET counters == net_or_insert(st.prev, iface, rx_bytes, tx_bytes)
    IN  net_measure(st, iface, rx_bytes, tx_bytes, elapsed, counters,
                    calculate_network_throughput(
                        rx_bytes, tx_bytes, counters.rx, counters.tx, elapsed))

\* the loop of calculate_network_rates over `parsed`, iterated in `order`
RECURSIVE net_loop(_, _, _, _)
net_loop(st, parsed, order, elapsed) ==
    IF order = <<>> THEN st
    ELSE LET iface == Head(order)
         IN  net_loop(net_iteration(st, iface, parsed[iface][1], parsed[iface][2], elapsed),
                      parsed, Tail(order), elapsed)

\* the state calculate_network_rates leaves behind, st being the result of its loop
net_return(e, parsed, order, st) ==
    /\ net_prev' = st.prev
    /\ net_max_rates' = st.max_rates
    /\ net_entries' = st.entries
    /\ net_call' = [elapsed |-> e, parsed |-> parsed, order |-> order,
                    before |-> st.before, rates |-> st.rates]
    /\ net_watch' = Watch(net_watch, DOMAIN parsed, net_max_rates,
                          st.max_rates, st.rates, e)
    /\ seen_active' = [seen_active EXCEPT !.net = @ \cup Active(st.rates)]

\* calculate_network_rates(elapsed, parsed, prev, max_rates, entries), entries
\* having been cleared by the caller
calculate_network_rates(elapsed, parsed, order) ==
    net_return(FloorElapsed(elapsed), parsed, order,
               net_loop([prev |-> net_prev, max_rates |-> net_max_rates,
                         entries |-> <<>>, before |-> EmptyMap, rates |-> EmptyMap],
                        parsed, order, FloorElapsed(elapsed)))

----------------------------------------------------------------------------
(* disk.rs *)

\* main.rs:34 (crate::DISK_SECTOR_SIZE)
DISK_SECTOR_SIZE == 512

\* str::rfind for a one-byte pattern: the last position of c in s (positions
\* count from 1), 0 for None
RECURSIVE rfind_from(_, _, _)
rfind_from(s, c, i) ==
    IF i = 0 THEN 0
    ELSE IF s[i] = c THEN i
    ELSE rfind_from(s, c, i - 1)

\* (mutant) the first position of c in s
RECURSIVE find_from(_, _, _)
find_from(s, c, i) ==
    IF i > Len(s) THEN 0
    ELSE IF s[i] = c THEN i
    ELSE find_from(s, c, i + 1)

find(s, c) == find_from(s, c, 1)

rfind(s, c) == rfind_from(s, c, Len(s))

\* disk.rs:42-46, p being rfind('p') counted from 1 (0 for None)
is_partition_suffix(name, p) ==
    /\ p # 0
    /\ p - 1 < Len(name) - 1
    /\ \A j \in (p + 1)..Len(name) : is_ascii_digit(name[j])

\* disk.rs:28-55
should_skip_device(name) ==
    IF \/ starts_with(name, <<"l", "o", "o", "p">>)
       \/ starts_with(name, <<"r", "a", "m">>)
       \/ starts_with(name, <<"d", "m", "-">>)
    THEN TRUE
    ELSE IF ~is_ascii_digit(IF name = <<>> THEN " " ELSE name[Len(name)]) THEN FALSE
    ELSE IF is_partition_suffix(name, rfind(name, "p")) THEN TRUE
    ELSE IF name # <<>> /\ name[1] \in {"s", "h", "v"} THEN TRUE
    ELSE FALSE

DiskDeviceState_new ==
    [max_rate |-> FOne, time_below_half_max |-> 0, has_had_io |-> FALSE]

calculate_disk_io_rates(read_sectors, write_sectors, prev_read, prev_write, elapsed) ==
    LET read_rate  == IF read_sectors >= prev_read
                      THEN FDiv(FMul(F64(read_sectors - prev_read), F64(DISK_SECTOR_SIZE)),
                                Secs(elapsed))
                      ELSE FZero
        write_rate == IF write_sectors >= prev_write
                      THEN FDiv(FMul(F64(write_sectors - prev_write), F64(DISK_SECTOR_SIZE)),
                                Secs(elapsed))
                      ELSE FZero
    IN  <<read_rate, write_rate>>

\* disk.rs:193-200 without the ceil of disk.rs:198: `as u8` alone truncates
disk_rate_to_level_trunc(rate, reference) ==
    IF FLeq(rate, FZero) \/ FLeq(reference, FZero) THEN 0
    ELSE LET ratio == FMin(FDiv(rate, reference), FOne)
             level == CeilU8(FMul(ratio, F64(10)))
         IN  IF F64(level) = FMul(ratio, F64(10)) THEN level ELSE level - 1

\* disk.rs:193-200
disk_rate_to_level(rate, reference) ==
    IF FLeq(rate, FZero) \/ FLeq(reference, FZero) THEN 0
    ELSE LET ratio == FMin(FDiv(rate, reference), FOne)
             level == CeilU8(FMul(ratio, F64(10)))
         IN  IF level < 10 THEN level ELSE 10

\* disk.rs:135-138
disk_mark_io(state, combined_rate) ==
    IF FLess(FZero, combined_rate)
    THEN [state EXCEPT !.has_had_io = TRUE]
    ELSE state

\* disk.rs:140-148 without the reset of the last branch (disk.rs:147)
disk_update_max_keep(state, combined_rate, elapsed) ==
    IF FLess(state.max_rate, combined_rate)
    THEN [state EXCEPT !.max_rate = combined_rate, !.time_below_half_max = 0]
    ELSE IF FLess(combined_rate, FDiv(state.max_rate, F64(2)))
    THEN [state EXCEPT !.time_below_half_max = @ + elapsed]
    ELSE state

\* disk.rs:140-148
disk_update_max(state, combined_rate, elapsed) ==
    IF FLess(state.max_rate, combined_rate)
    THEN [state EXCEPT !.max_rate = combined_rate, !.time_below_half_max = 0]
    ELSE IF FLess(combined_rate, FDiv(state.max_rate, F64(2)))
    THEN [state EXCEPT !.time_below_half_max = @ + elapsed]
    ELSE [state EXCEPT !.time_below_half_max = 0]

\* (mutant) disk.rs:150-154 without the reset of disk.rs:153
disk_decay_keeptime(state) ==
    IF state.time_below_half_max >= RATE_DECAY_TIME_SECS * TicksPerSec
    THEN [state EXCEPT !.max_rate = FDiv(@, F64(2))]
    ELSE state

\* disk.rs:150-154
disk_decay(state) ==
    IF state.time_below_half_max >= RATE_DECAY_TIME_SECS * TicksPerSec
    THEN [state EXCEPT !.max_rate = FDiv(@, F64(2)), !.time_below_half_max = 0]
    ELSE state

\* disk.rs:113-118: prev.entry(name).or_insert(DiskCounters { read, write })
disk_or_insert(prev, name, read_sectors, write_sectors) ==
    IF name \in DOMAIN prev
    THEN prev[name]
    ELSE [read |-> read_sectors, write |-> write_sectors]

\* disk.rs:135-154: the update of the device's DiskDeviceState
disk_state(state0, combined_rate, elapsed) ==
    disk_decay(disk_update_max(disk_mark_io(state0, combined_rate), combined_rate, elapsed))

\* disk.rs:156-165: the entry of a device
disk_entry(name, read_rate, write_rate, state) ==
    [device      |-> name,
     read_level  |-> disk_rate_to_level(read_rate, state.max_rate),
     write_level |-> disk_rate_to_level(write_rate, state.max_rate),
     read_mib_s  |-> FDiv(read_rate, F64(1048576)),
     write_mib_s |-> FDiv(write_rate, F64(1048576))]

\* disk.rs:127-166: what an iteration stores
disk_store(st, name, read_sectors, write_sectors, counters, rates, state) ==
    [prev      |-> Put(st.prev, name, [read |-> read_sectors, write |-> write_sectors]),
     max_rates |-> Put(st.max_rates, name, state),
     entries   |-> IF state.has_had_io
                   THEN Append(st.entries, disk_entry(name, rates[1], rates[2], state))
                   ELSE st.entries,
     before    |-> Put(st.before, name, <<counters.read, counters.write>>),
     rates     |-> Put(st.rates, name, rates)]

\* disk.rs:130-154
disk_measure(st, name, read_sectors, write_sectors, elapsed, counters, rates) ==
    disk_store(st, name, read_sectors, write_sectors, counters, rates,
               disk_state(IF name \in DOMAIN st.max_rates
                          THEN st.max_rates[name]
                          ELSE DiskDeviceState_new,
                          FMax(rates[1], rates[2]), elapsed))

\* one iteration of the loop of calculate_disk_rates (disk.rs:112-166)
disk_iteration(st, name, read_sectors, write_sectors, elapsed) ==
    LET counters == disk_or_insert(st.prev, name, read_sectors, write_sectors)
    IN  disk_measure(st, name, read_sectors, write_sectors, elapsed, counters,
                     calculate_disk_io_rates(
                         read_sectors, write_sectors, counters.read, counters.write, elapsed))

RECURSIVE disk_loop(_, _, _, _)
disk_loop(st, parsed, order, elapsed) ==
    IF order = <<>> THEN st
    ELSE LET name == Head(order)
         IN  disk_loop(disk_iteration(st, name, parsed[name][1], parsed[name][2], elapsed),
                       parsed, Tail(order), elapsed)

\* the state calculate_disk_rates leaves behind, st being the result of its loop
disk_return(e, parsed, order, st) ==
    /\ disk_prev' = st.prev
    /\ disk_max_rates' = st.max_rates
    /\ disk_entries' = st.entries
    /\ disk_call' = [elapsed |-> e, parsed |-> parsed, order |-> order,
                     before |-> st.before, rates |-> st.rates]
    /\ disk_watch' = Watch(disk_watch, DOMAIN parsed, disk_max_rates,
                           st.max_rates, st.rates, e)
    /\ seen_active' = [seen_active EXCEPT !.disk = @ \cup Active(st.rates)]

\* calculate_disk_rates(elapsed, parsed, prev, max_rates, entries), entries
\* having been cleared by the caller
calculate_disk_rates(elapsed, parsed, order) ==
    disk_return(FloorElapsed(elapsed), parsed, order,
                disk_loop([prev |-> disk_prev, max_rates |-> disk_max_rates,
                           entries |-> <<>>, before |-> EmptyMap, rates |-> EmptyMap],
                          parsed, order, FloorElapsed(elapsed)))

----------------------------------------------------------------------------
(* cpu.rs (main.rs:209-300 is the same code with the helpers inlined) *)

\* Option<CpuCounters>: <<>> for None, <<sample>> for Some(sample)
Slot(prev, cpu_idx) == IF cpu_idx \in DOMAIN prev THEN <<prev[cpu_idx]>> ELSE <<>>

\* cpu.rs:98-105, on total_diff and idle_diff.  active <= total_diff, so the
\* quotient of the (wrapped) product by total_diff is at most 100
usage_of_diffs(total_diff, idle_diff) ==
    IF total_diff = U64Zero THEN 0
    ELSE u64_div(wrapping_mul(saturating_sub(total_diff, idle_diff), 100), total_diff, 100)

calculate_cpu_usage(prev, total, idle) ==
    IF prev = <<>> THEN 0
    ELSE usage_of_diffs(saturating_sub(total, prev[1].total),
                        saturating_sub(idle, prev[1].idle))

\* `100 * active` exceeds u64 (cpu.rs:105): a panic where overflow is checked
cpu_usage_overflows(prev, total, idle) ==
    /\ prev # <<>>
    /\ mul_overflows(saturating_sub(saturating_sub(total, prev[1].total),
                                    saturating_sub(idle, prev[1].idle)), 100)

\* cpu.rs:110-123
RECURSIVE itoa_digits(_)
itoa_digits(n) ==
    IF n = 0 THEN <<>> ELSE Append(itoa_digits(n \div 10), DigitChar(n % 10))

itoa_usize(n) == IF n = 0 THEN <<"0">> ELSE itoa_digits(n)

\* cpu.rs:76-80: total += num; if field == 3 { idle = num }
cpu_flush(ps) ==
    [ps EXCEPT !.total = wrapping_add(@, ps.num),
               !.idle = IF ps.field = 3 THEN ps.num ELSE @]

\* cpu.rs:71-87, the loop over the bytes from position i on
RECURSIVE parse_cpu_loop(_, _, _)
parse_cpu_loop(data, i, ps) ==
    IF i > Len(data) THEN ps
    ELSE IF is_ascii_digit(data[i])
    THEN parse_cpu_loop(data, i + 1,
            [ps EXCEPT !.num = wrapping_add(wrapping_mul(@, 10), U64(DigitValue(data[i]))),
                       !.in_num = TRUE])
    ELSE IF ps.in_num
    THEN IF ps.field > 8
         THEN cpu_flush(ps)
         ELSE parse_cpu_loop(data, i + 1,
                 [cpu_flush(ps) EXCEPT !.field = @ + 1, !.num = U64Zero, !.in_num = FALSE])
    ELSE parse_cpu_loop(data, i + 1, ps)

CpuSample(ps) == [total |-> ps.total, idle |-> ps.idle]

parse_cpu_counters(data) ==
    CpuSample(parse_cpu_loop(data, 1,
        [total |-> U64Zero, idle |-> U64Zero, field |-> 0, num |-> U64Zero, in_num |-> FALSE]))

\* a + b exceeds u64
add_overflows(a, b) == LimbsAdd(a, b, 1, 0)[5] # 0

\* cpu.rs:30-35; positions count from 1; cpu_idx is a usize of 64 bits;
\* returns <<cpu_idx, pos, overflowed>>, overflowed telling whether
\* `cpu_idx * 10 + digit` exceeded usize on the way (a panic where overflow
\* is checked, a wrap elsewhere)
RECURSIVE cpu_idx_loop(_, _, _, _)
cpu_idx_loop(line, pos, cpu_idx, overflowed) ==
    IF pos <= Len(line) /\ is_ascii_digit(line[pos])
    THEN IF \/ mul_overflows(cpu_idx, 10)
            \/ add_overflows(wrapping_mul(cpu_idx, 10), U64(DigitValue(line[pos])))
         THEN cpu_idx_loop(line, pos + 1,
                 wrapping_add(wrapping_mul(cpu_idx, 10), U64(DigitValue(line[pos]))), TRUE)
         ELSE cpu_idx_loop(line, pos + 1,
                 wrapping_add(wrapping_mul(cpu_idx, 10), U64(DigitValue(line[pos]))),
                 overflowed)
    ELSE <<cpu_idx, pos, overflowed>>

\* cpu.rs:41-44
RECURSIVE cpu_skip_loop(_, _)
cpu_skip_loop(line, pos) ==
    IF pos <= Len(line) /\ line[pos] # " " /\ line[pos] # "\t"
    THEN cpu_skip_loop(line, pos + 1)
    ELSE pos

\* (mutant) the stored sample is kept once there is one
cpu_store_keep(st, cpu_idx, counters, usage) ==
    [prev    |-> IF cpu_idx \in DOMAIN st.prev THEN st.prev ELSE Put(st.prev, cpu_idx, counters),
     entries |-> Append(st.entries, [id |-> <<"c", "p", "u">> \o itoa_usize(cpu_idx),
                                     usage |-> usage]),
     trace   |-> Append(st.trace, [cpu_idx |-> cpu_idx, counters |-> counters,
                                   before |-> Slot(st.prev, cpu_idx), usage |-> usage])]

\* cpu.rs:52-59; st = [prev, entries, trace], trace recording the locals of
\* each accepted line
cpu_store(st, cpu_idx, counters, usage) ==
    [prev    |-> Put(st.prev, cpu_idx, counters),
     entries |-> Append(st.entries, [id |-> <<"c", "p", "u">> \o itoa_usize(cpu_idx),
                                     usage |-> usage]),
     trace   |-> Append(st.trace, [cpu_idx |-> cpu_idx, counters |-> counters,
                                   before |-> Slot(st.prev, cpu_idx), usage |-> usage])]

\* cpu.rs:46-59
cpu_line_sample(st, cpu_idx, counters) ==
    cpu_store(st, cpu_idx, counters,
              calculate_cpu_usage(Slot(st.prev, cpu_idx), counters.total, counters.idle))

\* cpu.rs:37-47; ip = <<cpu_idx, pos, overflowed>>; a cpu_idx below 256 is
\* its lowest limb
cpu_line_indexed(line, st, ip) ==
    IF ~LimbsLess(ip[1], U64(256), 4) THEN st
    ELSE cpu_line_sample(st, ip[1][1],
            parse_cpu_counters(SubSeq(line, cpu_skip_loop(line, ip[2]), Len(line))))

process_cpu_line(line, st) ==
    IF \/ ~starts_with(line, <<"c", "p", "u">>)
       \/ Len(line) < 5
       \/ ~is_ascii_digit(line[4])
    THEN st
    ELSE cpu_line_indexed(line, st, cpu_idx_loop(line, 4, U64Zero, FALSE))

\* the accumulation of cpu.rs:33 exceeds usize on this line
cpu_idx_overflows(line) ==
    /\ starts_with(line, <<"c", "p", "u">>)
    /\ Len(line) >= 5
    /\ is_ascii_digit(line[4])
    /\ cpu_idx_loop(line, 4, U64Zero, FALSE)[3]

\* cpu.rs:12-20, the loop from byte i on (bytes count from 1)
RECURSIVE collect_cpu_loop(_, _, _, _)
collect_cpu_loop(data, i, line_start, st) ==
    IF i > Len(data) THEN st
    ELSE IF data[i] = "\n" \/ i = Len(data)
    THEN collect_cpu_loop(data, i + 1, i + 1,
            process_cpu_line(
                SubSeq(data, line_start, IF data[i] = "\n" THEN i - 1 ELSE i), st))
    ELSE collect_cpu_loop(data, i + 1, line_start, st)

\* collect_cpu(data, prev, entries), entries having been cleared by the caller
collect_cpu(data, prev) ==
    collect_cpu_loop(data, 1, 1, [prev |-> prev, entries |-> <<>>, trace |-> <<>>])

----------------------------------------------------------------------------
(* The collectors of network.rs and disk.rs, called cycle after cycle.  The  *)
(* two share no state, so a behaviour drives one of them; MaxCalls bounds    *)
(* the number of cycles.                                                     *)

NoCall ==
    [elapsed |-> 1, parsed |-> EmptyMap, order |-> <<>>,
     before |-> EmptyMap, rates |-> EmptyMap]

InitNet ==
    /\ net_prev = EmptyMap
    /\ net_max_rates = EmptyMap
    /\ net_entries = <<>>
    /\ net_call = NoCall
    /\ net_watch = EmptyMap

InitDisk ==
    /\ disk_prev = EmptyMap
    /\ disk_max_rates = EmptyMap
    /\ disk_entries = <<>>
    /\ disk_call = NoCall
    /\ disk_watch = EmptyMap

NoCpuCall == [lines |-> <<>>, trace |-> <<>>]

InitCpu ==
    /\ cpu_prev = EmptyMap
    /\ cpu_entries = <<>>
    /\ cpu_call = NoCpuCall

NoFn == [fn |-> "none", args |-> <<>>, done |-> FALSE, ret |-> <<>>]

\* main has not been started
NoLoop ==
    [pc |-> "none", elapsed |-> 0, memory |-> <<>>, payload |-> <<>>, stdout |-> <<>>,
     wrote |-> FALSE, failed |-> <<>>, returned |-> <<>>]

Init ==
    /\ InitNet
    /\ InitDisk
    /\ InitCpu
    /\ seen_active = [net |-> {}, disk |-> {}]
    /\ fn_call = NoFn
    /\ calls = [net |-> 0, disk |-> 0]
    /\ main_loop = NoLoop

NetworkCycle ==
    /\ calls.disk = 0
    /\ calls.net < MaxCalls
    /\ \E elapsed \in ElapsedInputs, parsed \in NetParsedInputs :
         \E order \in Orders(DOMAIN parsed) :
            calculate_network_rates(elapsed, parsed, order)
    /\ calls' = [calls EXCEPT !.net = @ + 1]
    /\ UNCHANGED <<disk_vars, cpu_vars, fn_call, main_loop>>

DiskCycle ==
    /\ calls.net = 0
    /\ calls.disk < MaxCalls
    /\ \E elapsed \in ElapsedInputs, parsed \in DiskParsedInputs :
         \E order \in Orders(DOMAIN parsed) :
            calculate_disk_rates(elapsed, parsed, order)
    /\ calls' = [calls EXCEPT !.disk = @ + 1]
    /\ UNCHANGED <<net_vars, cpu_vars, fn_call, main_loop>>

Next == NetworkCycle \/ DiskCycle

Spec == Init /\ [][Next]_vars

----------------------------------------------------------------------------
(* main.rs: the body of the polling loop (main.rs:143-165) with main.rs's own *)
(* calculate_network_rates, calculate_disk_rates and rate_to_level            *)

NET_REF_BPS == 125000000

DISK_REF_BPS == 600000000

\* main.rs:820-827
main_rate_to_level(rate, reference) ==
    IF FLeq(rate, FZero) \/ FLeq(reference, FZero) THEN 0
    ELSE LET ratio == FMin(FDiv(rate, reference), FOne)
             level == CeilU8(FMul(ratio, F64(10)))
         IN  IF level < 10 THEN level ELSE 10

\* the key the entries of a list are sorted by (main.rs:158, 163)
EntryKey(e) == IF "iface" \in DOMAIN e THEN e.iface ELSE e.device

\* `e` put before the first entry of the sorted list whose key is greater
RECURSIVE SortInsert(_, _)
SortInsert(sorted, e) ==
    IF sorted = <<>> THEN <<e>>
    ELSE IF StrCmp(EntryKey(e), EntryKey(Head(sorted))) < 0 THEN <<e>> \o sorted
    ELSE <<Head(sorted)>> \o SortInsert(Tail(sorted), e)

\* (mutant) the list left in the order of the pushes
sort_by_nothing(entries) == entries

\* Vec::sort_by with the comparison of the keys: a stable sort
RECURSIVE sort_by(_)
sort_by(entries) ==
    IF entries = <<>> THEN <<>>
    ELSE SortInsert(sort_by(SubSeq(entries, 1, Len(entries) - 1)), entries[Len(entries)])

\* main.rs:469-478
main_net_rate(bytes, prev_bytes, elapsed) ==
    IF bytes >= prev_bytes THEN FDiv(F64(bytes - prev_bytes), Secs(elapsed)) ELSE FZero

\* main.rs:483-489
main_net_entry(iface, rx_rate, tx_rate) ==
    [iface    |-> iface,
     tx_level |-> main_rate_to_level(tx_rate, F64(NET_REF_BPS)),
     rx_level |-> main_rate_to_level(rx_rate, F64(NET_REF_BPS)),
     tx_mib_s |-> FDiv(tx_rate, F64(1048576)),
     rx_mib_s |-> FDiv(rx_rate, F64(1048576))]

\* main.rs:480-489
main_net_store(st, iface, rx_bytes, tx_bytes, counters, rates) ==
    [prev    |-> Put(st.prev, iface, [rx |-> rx_bytes, tx |-> tx_bytes]),
     entries |-> Append(st.entries, main_net_entry(iface, rates[1], rates[2])),
     before  |-> Put(st.before, iface, <<counters.rx, counters.tx>>),
     rates   |-> Put(st.rates, iface, rates)]

\* one iteration of the loop of main.rs's calculate_network_rates (464-490)
main_net_iteration(st, iface, rx_bytes, tx_bytes, elapsed) ==
    LET counters == IF iface \in DOMAIN st.prev
                    THEN st.prev[iface]
                    ELSE [rx |-> rx_bytes, tx |-> tx_bytes]
    IN  main_net_store(st, iface, rx_bytes, tx_bytes, counters,
                       <<main_net_rate(rx_bytes, counters.rx, elapsed),
                         main_net_rate(tx_bytes, counters.tx, elapsed)>>)

RECURSIVE main_net_loop(_, _, _, _)
main_net_loop(st, parsed, order, elapsed) ==
    IF order = <<>> THEN st
    ELSE main_net_loop(
            main_net_iteration(st, Head(order), parsed[Head(order)][1],
                               parsed[Head(order)][2], elapsed),
            parsed, Tail(order), elapsed)

\* main.rs:456-491, on the cleared entries
main_calculate_network_rates(elapsed, parsed, order, prev) ==
    main_net_loop([prev |-> prev, entries |-> <<>>, before |-> EmptyMap, rates |-> EmptyMap],
                  parsed, order, FloorElapsed(elapsed))

\* main.rs:620-629
main_disk_rate(sectors, prev_sectors, elapsed) ==
    IF sectors >= prev_sectors
    THEN FDiv(FMul(F64(sectors - prev_sectors), F64(DISK_SECTOR_SIZE)), Secs(elapsed))
    ELSE FZero

\* main.rs:634-640
main_disk_entry(name, read_rate, write_rate) ==
    [device      |-> name,
     read_level  |-> main_rate_to_level(read_rate, F64(DISK_REF_BPS)),
     write_level |-> main_rate_to_level(write_rate, F64(DISK_REF_BPS)),
     read_mib_s  |-> FDiv(read_rate, F64(1048576)),
     write_mib_s |-> FDiv(write_rate, F64(1048576))]

\* main.rs:631-640
main_disk_store(st, name, read_sectors, write_sectors, counters, rates) ==
    [prev    |-> Put(st.prev, name, [read |-> read_sectors, write |-> write_sectors]),
     entries |-> Append(st.entries, main_disk_entry(name, rates[1], rates[2])),
     before  |-> Put(st.before, name, <<counters.read, counters.write>>),
     rates   |-> Put(st.rates, name, rates)]

\* one iteration of the loop of main.rs's calculate_disk_rates (615-641)
main_disk_iteration(st, name, read_sectors, write_sectors, elapsed) ==
    LET counters == IF name \in DOMAIN st.prev
                    THEN st.prev[name]
                    ELSE [read |-> read_sectors, write |-> write_sectors]
    IN  main_disk_store(st, name, read_sectors, write_sectors, counters,
                        <<main_disk_rate(read_sectors, counters.read, elapsed),
                          main_disk_rate(write_sectors, counters.write, elapsed)>>)

RECURSIVE main_disk_loop(_, _, _, _)
main_disk_loop(st, parsed, order, elapsed) ==
    IF order = <<>> THEN st
    ELSE main_disk_loop(
            main_disk_iteration(st, Head(order), parsed[Head(order)][1],
                                parsed[Head(order)][2], elapsed),
            parsed, Tail(order), elapsed)

\* main.rs:607-645, on the cleared entries
main_calculate_disk_rates(elapsed, parsed, order, prev) ==
    main_disk_loop([prev |-> prev, entries |-> <<>>, before |-> EmptyMap, rates |-> EmptyMap],
                   parsed, order, FloorElapsed(elapsed))

----------------------------------------------------------------------------
(* Inputs of the polling loop *)

\* lines of the CPU source
\* "cpu0 100 0 0 100 0"
STAT_CPU0_A ==
    <<"c", "p", "u", "0", " ", "1", "0", "0", " ", "0", " ", "0", " ", "1",
      "0", "0", " ", "0">>

\* "cpu0 600 0 0 600 0"
STAT_CPU0_B ==
    <<"c", "p", "u", "0", " ", "6", "0", "0", " ", "0", " ", "0", " ", "6",
      "0", "0", " ", "0">>

\* "cpu1 4 0 0 6 0"
STAT_CPU1_A ==
    <<"c", "p", "u", "1", " ", "4", " ", "0", " ", "0", " ", "6", " ", "0">>

\* "cpu1 9 0 0 6 0"
STAT_CPU1_B ==
    <<"c", "p", "u", "1", " ", "9", " ", "0", " ", "0", " ", "6", " ", "0">>

\* "cpu2 1 0 0 1 0 0 0 0 0 5 7"
STAT_CPU2 ==
    <<"c", "p", "u", "2", " ", "1", " ", "0", " ", "0", " ", "1", " ", "0",
      " ", "0", " ", "0", " ", "0", " ", "0", " ", "5", " ", "7">>

\* "cpu  700 0 0 700 0"
STAT_AGGREGATE ==
    <<"c", "p", "u", " ", " ", "7", "0", "0", " ", "0", " ", "0", " ", "7",
      "0", "0", " ", "0">>

\* "cpu256 1 0 0 1 0"
STAT_CPU256 ==
    <<"c", "p", "u", "2", "5", "6", " ", "1", " ", "0", " ", "0", " ", "1",
      " ", "0">>

\* "intr 5"
STAT_INTR ==
    <<"i", "n", "t", "r", " ", "5">>

StatLines == {STAT_CPU0_A, STAT_CPU0_B, STAT_CPU1_A}

MaxStatLines == 2

\* sources with the lines a CPU source also has: the aggregate line first,
\* other keys after the CPU lines, an index out of range
StatExtraSeqs ==
    {<<STAT_AGGREGATE, STAT_CPU0_A, STAT_CPU1_A, STAT_INTR>>,
     <<STAT_AGGREGATE, STAT_CPU0_B, STAT_CPU1_B, STAT_INTR>>,
     <<STAT_CPU1_B, STAT_INTR, STAT_CPU0_A>>,
     <<STAT_CPU256, STAT_CPU2>>}

StatLineSeqs ==
    UNION {[1..n -> StatLines] : n \in 0..MaxStatLines} \cup StatExtraSeqs

RECURSIVE ConcatLines(_)
ConcatLines(lines) ==
    IF lines = <<>> THEN <<>> ELSE Head(lines) \o <<"\n">> \o ConcatLines(Tail(lines))

DropLast(s) == SubSeq(s, 1, Len(s) - 1)

\* the bytes pread_file returns for a source made of `lines`; the last line
\* ends with a newline or not
StatBuffer(lines, newline) ==
    IF newline \/ lines = <<>> THEN ConcatLines(lines) ELSE DropLast(ConcatLines(lines))

MainNetIfaces == {ETH0, WLAN0}

NVME0N1 == <<"n", "v", "m", "e", "0", "n", "1">>

MainDiskDevices == {SDA, NVME0N1}

MainElapsedInputs == {0, TicksPerSec}

\* the readings an entity can show: idle, or one of its counters advanced
MainCounterPairs == {<<0, 0>>, <<1, 0>>, <<0, 1>>}

MainNetParsedInputs == UNION {[S -> MainCounterPairs] : S \in SUBSET MainNetIfaces}

MainDiskParsedInputs == UNION {[S -> MainCounterPairs] : S \in SUBSET MainDiskDevices}

----------------------------------------------------------------------------
(* The polling loop of main.rs: each cycle collects the CPU list, then the   *)
(* network list and sorts it, then the disk list and sorts it.  The three    *)
(* collections share no state, so a behaviour drives one of them; the state  *)
(* each leaves is bounded by its inputs, so the cycles are not counted.      *)

cpu_return(lines, st) ==
    /\ cpu_prev' = st.prev
    /\ cpu_entries' = st.entries
    /\ cpu_call' = [lines |-> lines, trace |-> st.trace]

\* main.rs:148-150
MainCpu ==
    /\ InitNet
    /\ InitDisk
    /\ \E lines \in StatLineSeqs, newline \in BOOLEAN :
          cpu_return(lines, collect_cpu(StatBuffer(lines, newline), cpu_prev))
    /\ UNCHANGED <<net_vars, disk_vars, seen_active, fn_call, calls, main_loop>>

main_network_return(e, parsed, order, st) ==
    /\ net_prev' = st.prev
    /\ net_entries' = sort_by(st.entries)
    /\ net_call' = [elapsed |-> e, parsed |-> parsed, order |-> order,
                    before |-> st.before, rates |-> st.rates]
    /\ seen_active' = [seen_active EXCEPT !.net = @ \cup Active(st.rates)]

\* main.rs:155-158
MainNetwork ==
    /\ InitDisk
    /\ InitCpu
    /\ \E elapsed \in MainElapsedInputs, parsed \in MainNetParsedInputs :
         \E order \in Orders(DOMAIN parsed) :
            main_network_return(FloorElapsed(elapsed), parsed, order,
                main_calculate_network_rates(elapsed, parsed, order, net_prev))
    /\ UNCHANGED <<net_max_rates, net_watch, disk_vars, cpu_vars, fn_call, calls, main_loop>>

main_disk_return(e, parsed, order, st) ==
    /\ disk_prev' = st.prev
    /\ disk_entries' = sort_by(st.entries)
    /\ disk_call' = [elapsed |-> e, parsed |-> parsed, order |-> order,
                     before |-> st.before, rates |-> st.rates]
    /\ seen_active' = [seen_active EXCEPT !.disk = @ \cup Active(st.rates)]

\* main.rs:160-163
MainDisk ==
    /\ InitNet
    /\ InitCpu
    /\ \E elapsed \in MainElapsedInputs, parsed \in MainDiskParsedInputs :
         \E order \in Orders(DOMAIN parsed) :
            main_disk_return(FloorElapsed(elapsed), parsed, order,
                main_calculate_disk_rates(elapsed, parsed, order, disk_prev))
    /\ UNCHANGED <<disk_max_rates, disk_watch, net_vars, cpu_vars, fn_call, calls, main_loop>>

NextMain == MainCpu \/ MainNetwork \/ MainDisk

SpecMain == Init /\ [][NextMain]_vars

----------------------------------------------------------------------------
(* Claims about calculate_network_rates and calculate_disk_rates *)

NetCounter(rec, c) == IF c = 1 THEN rec.rx ELSE rec.tx

DiskCounter(rec, c) == IF c = 1 THEN rec.read ELSE rec.write

NetCalled == calls'.net # calls.net

DiskCalled == calls'.disk # calls.disk

C1_Step ==
    /\ NetCalled =>
         \A i \in (DOMAIN net_call'.parsed) \cap (DOMAIN net_prev) : \A c \in {1, 2} :
            LET cur == net_call'.parsed[i][c]
                old == NetCounter(net_prev[i], c)
            IN  /\ cur < old =>
                     /\ net_call'.rates[i][c] = FZero
                     /\ NetCounter(net_prev'[i], c) = cur
                /\ cur >= old =>
                     net_call'.rates[i][c] =
                        FDiv(F64(cur - old), Secs(net_call'.elapsed))
    /\ DiskCalled =>
         \A i \in (DOMAIN disk_call'.parsed) \cap (DOMAIN disk_prev) : \A c \in {1, 2} :
            LET cur == disk_call'.parsed[i][c]
                old == DiskCounter(disk_prev[i], c)
            IN  /\ cur < old =>
                     /\ disk_call'.rates[i][c] = FZero
                     /\ DiskCounter(disk_prev'[i], c) = cur
                /\ cur >= old =>
                     disk_call'.rates[i][c] =
                        FDiv(F64((cur - old) * DISK_SECTOR_SIZE), Secs(disk_call'.elapsed))

\* C1: for each of an entity's two counters independently, a reading lower
\* than the stored previous one gives rate exactly 0 in this cycle and becomes
\* the stored previous value; every rate is measured from the stored value, so
\* the next cycle's rate is measured from the lower reading.
C1_CounterReset == [][C1_Step]_vars

\* a cycle in which rx dropped below the stored value while tx advanced
C1_Witness ==
    \E i \in DOMAIN net_call.parsed :
        /\ net_call.parsed[i][1] < net_call.before[i][1]
        /\ net_call.parsed[i][2] > net_call.before[i][2]
        /\ net_call.rates[i][1] = FZero
        /\ net_call.rates[i][2] # FZero

\* C3: the per-entity max_rate is at least 1.0 in every reachable state.
C3_MaxRateFloor ==
    /\ \A i \in DOMAIN net_max_rates : FLeq(FOne, net_max_rates[i].max_rate)
    /\ \A i \in DOMAIN disk_max_rates : FLeq(FOne, disk_max_rates[i].max_rate)

\* C4: when max_rate was raised to R and the combined rate has been 0 in every
\* cycle since, then at the first cycle at which the floored elapsed time
\* accumulated since the raise reaches 10 s, max_rate is R/2 and
\* time_below_half_max is 0.
C4_Decay ==
    /\ \A i \in DOMAIN net_watch :
          net_watch[i].since >= DecayTicks =>
             /\ net_max_rates[i].max_rate = FDiv(net_watch[i].raised_to, F64(2))
             /\ net_max_rates[i].time_below_half_max = 0
    /\ \A i \in DOMAIN disk_watch :
          disk_watch[i].since >= DecayTicks =>
             /\ disk_max_rates[i].max_rate = FDiv(disk_watch[i].raised_to, F64(2))
             /\ disk_max_rates[i].time_below_half_max = 0

\* the decay time reached exactly, by two idle cycles of 5 s after a raise
C4_Witness ==
    \E i \in DOMAIN net_watch :
        /\ net_watch[i].since = DecayTicks
        /\ net_call.elapsed = 5 * TicksPerSec
        /\ FLess(FOne, net_watch[i].raised_to)

C7_Step ==
    /\ NetCalled =>
         \A i \in (DOMAIN net_call'.parsed) \ (DOMAIN net_prev) :
            /\ net_prev'[i] = [rx |-> net_call'.parsed[i][1], tx |-> net_call'.parsed[i][2]]
            /\ net_call'.rates[i] = <<FZero, FZero>>
    /\ DiskCalled =>
         \A i \in (DOMAIN disk_call'.parsed) \ (DOMAIN disk_prev) :
            /\ disk_prev'[i] =
                  [read |-> disk_call'.parsed[i][1], write |-> disk_call'.parsed[i][2]]
            /\ disk_call'.rates[i] = <<FZero, FZero>>

\* C7: on the first cycle in which an interface or device is observed, its
\* readings are stored as its previous values and both rates are 0, whatever
\* the counter values and the elapsed time.
C7_FirstObservation == [][C7_Step]_vars

\* a first observation with a non-zero counter and the smallest elapsed time
C7_Witness ==
    /\ calls.net = 1
    /\ ETH0 \in DOMAIN net_call.parsed
    /\ net_call.parsed[ETH0][1] > 0
    /\ net_call.elapsed = 1
    /\ net_prev[ETH0].rx = net_call.parsed[ETH0][1]

----------------------------------------------------------------------------
(* Claims about the lists of a cycle *)

Ifaces(entries) == {entries[j].iface : j \in DOMAIN entries}

Devices(entries) == {entries[j].device : j \in DOMAIN entries}

\* C2: an interface or device present in the cycle's source is in the cycle's
\* list if and only if its combined rate was above 0 in this cycle or in an
\* earlier one (so, once listed, it is listed in every later cycle in which it
\* is present, idle cycles included).
C2_EmittedIffActive ==
    /\ \A i \in DOMAIN net_call.parsed :
          i \in Ifaces(net_entries) <=> i \in seen_active.net
    /\ \A i \in DOMAIN disk_call.parsed :
          i \in Devices(disk_entries) <=> i \in seen_active.disk

\* an interface listed again in an idle cycle after its first activity
C2_Witness ==
    \E i \in DOMAIN net_call.parsed :
        /\ i \in seen_active.net
        /\ i \notin Active(net_call.rates)
        /\ i \in Ifaces(net_entries)

CpuCalled == cpu_vars' # cpu_vars

Latest(S) == CHOOSE k \in S : \A l \in S : l <= k

\* the sample the j-th accepted line of the call is to be evaluated against
CpuPreceding(trace, j, prev) ==
    LET earlier == {k \in 1..(j - 1) : trace[k].cpu_idx = trace[j].cpu_idx}
    IN  IF earlier # {} THEN <<trace[Latest(earlier)].counters>>
        ELSE Slot(prev, trace[j].cpu_idx)

GrewBy(sample, before, total, idle) ==
    /\ sample.total \o <<0>> = LimbsAdd(before.total, U64(total), 1, 0)
    /\ sample.idle \o <<0>> = LimbsAdd(before.idle, U64(idle), 1, 0)

C5_Step ==
    CpuCalled =>
        /\ Len(cpu_entries') = Len(cpu_call'.trace)
        /\ \A j \in DOMAIN cpu_call'.trace :
              LET line     == cpu_call'.trace[j]
                  against  == CpuPreceding(cpu_call'.trace, j, cpu_prev)
                  replaced == \E k \in (j + 1)..Len(cpu_call'.trace) :
                                 cpu_call'.trace[k].cpu_idx = line.cpu_idx
              IN  /\ against = <<>> => cpu_entries'[j].usage = 0
                  /\ cpu_entries'[j].usage =
                        calculate_cpu_usage(against, line.counters.total, line.counters.idle)
                  /\ (against # <<>> /\ GrewBy(line.counters, against[1], 1000, 500)) =>
                        cpu_entries'[j].usage = 50
                  /\ ~replaced => cpu_prev'[line.cpu_idx] = line.counters

\* C5: the first accepted line for a CPU index reports usage 0 and stores its
\* (total, idle); every later accepted line for the index is evaluated against
\* the sample stored by the accepted line for that index just before it, and
\* then replaces it; a total grown by 1000 with idle grown by 500 reports 50.
C5_CpuSamples == [][C5_Step]_vars

\* a cycle whose only line shows cpu0 with total grown by 1000 and idle by 500
\* since an earlier cycle
C5_Witness ==
    /\ Len(cpu_call.lines) = 1
    /\ Len(cpu_call.trace) = 1
    /\ cpu_call.trace[1].before # <<>>
    /\ GrewBy(cpu_call.trace[1].counters, cpu_call.trace[1].before[1], 1000, 500)
    /\ cpu_entries[1].usage = 50

Ascending(entries) ==
    \A i, j \in DOMAIN entries :
        i < j => StrCmp(EntryKey(entries[i]), EntryKey(entries[j])) <= 0

\* the id a line of the model's CPU sources is listed under, if it is accepted
StatLineId(line) ==
    IF line \in {STAT_CPU0_A, STAT_CPU0_B} THEN <<(<<"c", "p", "u", "0">>)>>
    ELSE IF line \in {STAT_CPU1_A, STAT_CPU1_B} THEN <<(<<"c", "p", "u", "1">>)>>
    ELSE IF line = STAT_CPU2 THEN <<(<<"c", "p", "u", "2">>)>>
    ELSE <<>>

RECURSIVE AcceptedIds(_)
AcceptedIds(lines) ==
    IF lines = <<>> THEN <<>> ELSE StatLineId(Head(lines)) \o AcceptedIds(Tail(lines))

\* C9: after the sort step the network list and the disk list are in
\* ascending order of their identifiers, whatever order the entities were
\* processed in, and the CPU list is in the order of the accepted lines of the
\* source buffer.
C9_ListOrder ==
    /\ Ascending(net_entries)
    /\ Ascending(disk_entries)
    /\ [j \in DOMAIN cpu_entries |-> cpu_entries[j].id] = AcceptedIds(cpu_call.lines)

\* two interfaces processed in descending order and listed in ascending order
C9_Witness ==
    /\ net_call.order = <<WLAN0, ETH0>>
    /\ Len(net_entries) = 2
    /\ net_entries[1].iface = ETH0
    /\ net_entries[2].iface = WLAN0

\* a CPU list that is not in ascending order of its ids: cpu1 before cpu0
CpuListUnsorted ==
    /\ Len(cpu_entries) = 2
    /\ StrCmp(cpu_entries[1].id, cpu_entries[2].id) > 0

----------------------------------------------------------------------------
(* Pure functions, each called once on arguments drawn from a bounded set *)

InitIdle ==
    /\ InitNet
    /\ InitDisk
    /\ InitCpu
    /\ seen_active = [net |-> {}, disk |-> {}]
    /\ calls = [net |-> 0, disk |-> 0]
    /\ main_loop = NoLoop

Idle == UNCHANGED <<net_vars, disk_vars, cpu_vars, seen_active, calls, main_loop>>

FnCall(fn, args) == [fn |-> fn, args |-> args, done |-> FALSE, ret |-> <<>>]

Pending(fn) == fn_call.fn = fn /\ ~fn_call.done

Return(ret) == fn_call' = [fn_call EXCEPT !.done = TRUE, !.ret = ret]

Returned(fn) == fn_call.fn = fn /\ fn_call.done

\* ---- calculate_cpu_usage (cpu.rs:92-106)

\* 2^63 and 2^64 - 1
U64Half == <<0, 0, 0, U64Limb \div 2>>

U64Max == <<U64Limb - 1, U64Limb - 1, U64Limb - 1, U64Limb - 1>>

UsageTicks == {U64(0), U64(1), U64(3), U64(500), U64(1000), U64Half, U64Max}

UsageSamples == [total : UsageTicks, idle : UsageTicks]

InitUsage ==
    /\ InitIdle
    /\ fn_call \in {FnCall("calculate_cpu_usage", <<prev, sample.total, sample.idle>>) :
                       prev \in {<<>>} \cup {<<p>> : p \in UsageSamples},
                       sample \in UsageSamples}

\* the value returned and, where `100 * active` exceeds u64, the panic of a
\* build that checks overflow
cpu_usage_outcomes(prev, total, idle) ==
    {[panic |-> FALSE, value |-> calculate_cpu_usage(prev, total, idle)]}
    \cup (IF cpu_usage_overflows(prev, total, idle)
          THEN {[panic |-> TRUE, value |-> 0]}
          ELSE {})

CallCpuUsage ==
    /\ Pending("calculate_cpu_usage")
    /\ \E outcome \in cpu_usage_outcomes(fn_call.args[1], fn_call.args[2], fn_call.args[3]) :
          Return(outcome)
    /\ Idle

SpecUsage == InitUsage /\ [][CallCpuUsage]_vars

\* u = floor(100 * max(0, dt - di) / dt) for dt # 0, on the integers
IsUsageOf(u, dt, di) ==
    /\ u \in 0..100
    /\ ~LimbsLess(LimbsMul(saturating_sub(dt, di), 100, 1, 0), LimbsMul(dt, u, 1, 0), 5)
    /\ LimbsLess(LimbsMul(saturating_sub(dt, di), 100, 1, 0), LimbsMul(dt, u + 1, 1, 0), 5)

UsageAsStated(prev, total, idle, ret) ==
    /\ ~ret.panic
    /\ ret.value \in 0..100
    /\ IF saturating_sub(total, prev.total) = U64Zero
       THEN ret.value = 0
       ELSE IsUsageOf(ret.value, saturating_sub(total, prev.total),
                      saturating_sub(idle, prev.idle))

\* C6: with a previous sample (pt, pi) and a reading (t, i), calculate_cpu_usage
\* returns 0 when dt = t - pt (saturating) is 0 and otherwise
\* floor(100 * max(0, dt - di) / dt), di = i - pi (saturating); the result is
\* within 0..100 for all inputs.
C6_CpuUsage ==
    (Returned("calculate_cpu_usage") /\ fn_call.args[1] # <<>>) =>
        UsageAsStated(fn_call.args[1][1], fn_call.args[2], fn_call.args[3], fn_call.ret)

\* the same, for the inputs on which 100 * (dt - di) fits u64
C6_CpuUsageInRange ==
    (/\ Returned("calculate_cpu_usage")
     /\ fn_call.args[1] # <<>>
     /\ ~cpu_usage_overflows(fn_call.args[1], fn_call.args[2], fn_call.args[3])) =>
        UsageAsStated(fn_call.args[1][1], fn_call.args[2], fn_call.args[3], fn_call.ret)

\* a call in range: total grown by 3 and idle by 1 give floor(200 / 3) = 66
C6_InRangeWitness ==
    /\ Returned("calculate_cpu_usage")
    /\ fn_call.args = <<(<<[total |-> U64(0), idle |-> U64(0)]>>), U64(3), U64(1)>>
    /\ fn_call.ret = [panic |-> FALSE, value |-> 66]

\* ---- rate_to_level (network.rs:202-209, disk.rs:193-200)

MaxLevelNum == 5

MaxLevelDen == 2

\* the rates -1/q .. MaxLevelNum/q
LevelRates == {Norm(p, q, 0) : p \in (0 - 1)..MaxLevelNum, q \in 1..MaxLevelDen}

LevelBaselines == {m \in LevelRates : FLess(FZero, m)}

InitLevel ==
    /\ InitIdle
    /\ fn_call \in {FnCall("rate_to_level", <<r1, r2, m>>) :
                       r1 \in LevelRates, r2 \in LevelRates, m \in LevelBaselines}

\* the levels of r1, r2, m and 0 against the baseline m, and the level of r2
\* against r1 as the reference (r1 may be zero or negative)
LevelsOf(r1, r2, m) ==
    [net  |-> <<rate_to_level(r1, m), rate_to_level(r2, m),
                rate_to_level(m, m), rate_to_level(FZero, m),
                rate_to_level(r2, r1)>>,
     disk |-> <<disk_rate_to_level(r1, m), disk_rate_to_level(r2, m),
                disk_rate_to_level(m, m), disk_rate_to_level(FZero, m),
                disk_rate_to_level(r2, r1)>>]

CallRateToLevel ==
    /\ Pending("rate_to_level")
    /\ Return(LevelsOf(fn_call.args[1], fn_call.args[2], fn_call.args[3]))
    /\ Idle

SpecLevel == InitLevel /\ [][CallRateToLevel]_vars

LevelLaws(r1, r2, levels) ==
    /\ levels[3] = 10
    /\ levels[4] = 0
    /\ FLeq(r1, r2) => levels[1] <= levels[2]

\* C8: for every positive baseline m, level(m, m) = 10, level(0, m) = 0, and
\* level(r1, m) <= level(r2, m) for all rates r1 <= r2.
C8_LevelLaws ==
    Returned("rate_to_level") =>
        /\ LevelLaws(fn_call.args[1], fn_call.args[2], fn_call.ret.net)
        /\ LevelLaws(fn_call.args[1], fn_call.args[2], fn_call.ret.disk)

\* two rates below the baseline, in order, with different levels above 0
C8_Witness ==
    /\ Returned("rate_to_level")
    /\ FLess(fn_call.args[1], fn_call.args[2])
    /\ FLess(fn_call.args[2], fn_call.args[3])
    /\ 0 < fn_call.ret.net[1]
    /\ fn_call.ret.net[1] < fn_call.ret.net[2]
    /\ fn_call.ret.net[2] < 10

\* ---- should_skip_device (disk.rs:28-55)

LOOP5 == <<"l", "o", "o", "p", "5">>

RAM3 == <<"r", "a", "m", "3">>

DM_1 == <<"d", "m", "-", "1">>

NVME0N1P2 == <<"n", "v", "m", "e", "0", "n", "1", "p", "2">>

SDA3 == <<"s", "d", "a", "3">>

HDB7 == <<"h", "d", "b", "7">>

VDC12 == <<"v", "d", "c", "1", "2">>

VDA == <<"v", "d", "a">>

MaxNameLen == 3

SkipChars == {"s", "h", "v", "p", "n", "a", "0", "7"}

ShortNames == UNION {[1..n -> SkipChars] : n \in 0..MaxNameLen}

SkipPrefixes ==
    {<<"l", "o", "o", "p">>, <<"r", "a", "m">>, <<"d", "m", "-">>,
     <<"l", "o", "o">>, <<"r", "a">>, <<"d", "m">>}

SkipNames ==
    ShortNames
    \cup {prefix \o rest : prefix \in SkipPrefixes,
                           rest \in {n \in ShortNames : Len(n) < MaxNameLen}}
    \cup {LOOP5, RAM3, DM_1, NVME0N1P2, SDA3, HDB7, VDC12, NVME0N1, SDA, VDA}

InitSkip ==
    /\ InitIdle
    /\ fn_call \in {FnCall("should_skip_device", <<name>>) : name \in SkipNames}

CallShouldSkip ==
    /\ Pending("should_skip_device")
    /\ Return(should_skip_device(fn_call.args[1]))
    /\ Idle

SpecSkip == InitSkip /\ [][CallShouldSkip]_vars

EndsInDigit(name) == name # <<>> /\ is_ascii_digit(name[Len(name)])

PseudoDevice(name) ==
    \/ starts_with(name, <<"l", "o", "o", "p">>)
    \/ starts_with(name, <<"r", "a", "m">>)
    \/ starts_with(name, <<"d", "m", "-">>)

\* the last 'p' of the name is followed by digits only
LastPThenDigits(name) ==
    \E i \in DOMAIN name :
        /\ name[i] = "p"
        /\ \A j \in (i + 1)..Len(name) : name[j] # "p"
        /\ \A j \in (i + 1)..Len(name) : is_ascii_digit(name[j])

Rejected(name) ==
    \/ PseudoDevice(name)
    \/ /\ EndsInDigit(name)
       /\ LastPThenDigits(name) \/ name[1] \in {"s", "h", "v"}

\* C10: should_skip_device rejects every name starting with loop, ram or dm-,
\* keeps every other name not ending in a decimal digit, and among the other
\* digit-ending names rejects those whose last 'p' is followed only by digits
\* and those starting with s, h or v, keeping all others; loop5, ram3, dm-1,
\* nvme0n1p2, sda3, hdb7 and vdc12 are rejected, nvme0n1, sda and vda kept.
C10_DeviceFilter ==
    Returned("should_skip_device") =>
        /\ fn_call.ret = Rejected(fn_call.args[1])
        /\ fn_call.args[1] \in {LOOP5, RAM3, DM_1, NVME0N1P2, SDA3, HDB7, VDC12} =>
              fn_call.ret = TRUE
        /\ fn_call.args[1] \in {NVME0N1, SDA, VDA} => fn_call.ret = FALSE

\* an NVMe partition rejected by the 'p' rule alone
C10_Witness ==
    /\ Returned("should_skip_device")
    /\ fn_call.args[1] = NVME0N1P2
    /\ fn_call.ret = TRUE

----------------------------------------------------------------------------
(* The parser of the network source (network.rs:29-112).  The bytes of the   *)
(* model are ASCII, so std::str::from_utf8 always succeeds.                  *)

\* char::is_whitespace on the bytes of the model
is_whitespace(c) == c \in {" ", "\t", "\r"}

RECURSIVE trim_start(_)
trim_start(s) ==
    IF s # <<>> /\ is_whitespace(Head(s)) THEN trim_start(Tail(s)) ELSE s

RECURSIVE trim_end(_)
trim_end(s) ==
    IF s # <<>> /\ is_whitespace(s[Len(s)]) THEN trim_end(DropLast(s)) ELSE s

\* str::trim
trim(s) == trim_start(trim_end(s))

\* iter().position(|&b| b == c) from position i on (positions count from
\* 1): the first position holding c, 0 for None
RECURSIVE position_from(_, _, _)
position_from(s, c, i) ==
    IF i > Len(s) THEN 0
    ELSE IF s[i] = c THEN i
    ELSE position_from(s, c, i + 1)

position(s, c) == position_from(s, c, 1)

\* network.rs:81-112, the loop over the bytes from position i on and the
\* statements after it
RECURSIVE parse_network_counters_loop(_, _, _)
parse_network_counters_loop(data, i, ps) ==
    IF i > Len(data)
    THEN IF ps.in_num /\ ps.field = 8 THEN [ps EXCEPT !.tx_bytes = ps.num] ELSE ps
    ELSE IF is_ascii_digit(data[i])
    THEN parse_network_counters_loop(data, i + 1,
            [ps EXCEPT !.num = wrapping_add(wrapping_mul(@, 10), U64(DigitValue(data[i]))),
                       !.in_num = TRUE])
    ELSE IF ps.in_num
    THEN IF ps.field = 8
         THEN [ps EXCEPT !.tx_bytes = ps.num]
         ELSE parse_network_counters_loop(data, i + 1,
                 [ps EXCEPT !.rx_bytes = IF ps.field = 0 THEN ps.num ELSE @,
                            !.field = @ + 1, !.num = U64Zero, !.in_num = FALSE])
    ELSE parse_network_counters_loop(data, i + 1, ps)

NetCounters(ps) == <<ps.rx_bytes, ps.tx_bytes>>

parse_network_counters(data) ==
    NetCounters(parse_network_counters_loop(data, 1,
        [rx_bytes |-> U64Zero, tx_bytes |-> U64Zero, field |-> 0, num |-> U64Zero,
         in_num |-> FALSE]))

\* network.rs:62-77; an Option is <<>> for None and <<x>> for Some(x)
net_line_named(line, colon_pos, iface) ==
    IF iface = <<>> \/ Len(iface) > 15 THEN <<>>
    ELSE IF iface = <<"l", "o">> THEN <<>>
    ELSE IF starts_with(iface, <<"d", "o", "c", "k", "e", "r">>) THEN <<>>
    ELSE IF starts_with(iface, <<"v", "e", "t", "h">>) THEN <<>>
    ELSE <<[iface    |-> iface,
            counters |-> parse_network_counters(SubSeq(line, colon_pos + 1, Len(line)))]>>

\* network.rs:57-60
net_line_colon(line, colon_pos) ==
    IF colon_pos = 0 THEN <<>>
    ELSE net_line_named(line, colon_pos, trim(SubSeq(line, 1, colon_pos - 1)))

parse_network_line(line) == net_line_colon(line, position(line, ":"))

\* network.rs:42-46; st = [result, skip_count, trace], trace recording for
\* each line of the buffer what the line yielded
net_line_insert(st, line, parsed) ==
    [st EXCEPT !.result = IF parsed = <<>> THEN @
                          ELSE Put(@, parsed[1].iface, parsed[1].counters),
               !.trace = Append(@, [line |-> line, skipped |-> FALSE, yielded |-> parsed])]

\* network.rs:38-46
net_line_end(st, line) ==
    IF st.skip_count < 2
    THEN [st EXCEPT !.skip_count = @ + 1,
                    !.trace = Append(@, [line |-> line, skipped |-> TRUE, yielded |-> <<>>])]
    ELSE net_line_insert(st, line, parse_network_line(line))

\* network.rs:34-35, the bytes from i on that end no line: the position of
\* the next byte that is a newline or the last of the buffer
RECURSIVE net_line_scan(_, _)
net_line_scan(data, i) ==
    IF data[i] = "\n" \/ i = Len(data) THEN i ELSE net_line_scan(data, i + 1)

\* network.rs:36-49, the line from line_start to the byte i that ends it
net_line_at(data, line_start, i, st) ==
    net_line_end(st, SubSeq(data, line_start, IF data[i] = "\n" THEN i - 1 ELSE i))

\* network.rs:34-50, the loop from the start of a line on (bytes count from 1)
RECURSIVE parse_network_loop(_, _, _)
parse_network_loop(data, line_start, st) ==
    IF line_start > Len(data) THEN st
    ELSE parse_network_loop(data, net_line_scan(data, line_start) + 1,
            net_line_at(data, line_start, net_line_scan(data, line_start), st))

parse_network(data) ==
    parse_network_loop(data, 1, [result |-> EmptyMap, skip_count |-> 0, trace |-> <<>>])

\* ---- lines of the network source

\* the number of lines of a buffer after its first two
MaxNetLines == 2

NET_HEADER == <<"f", "a", "c", "e", " ", "|", "b", "y", "t", "e", "s">>

NET_ETH0 == <<" ", " ", "e", "t", "h", "0", ":", " ", "5", " ", "0", " ", "0",
      " ", "0", " ", "0", " ", "0", " ", "0", " ", "0", " ", "7", " ",
      "0">>

NET_LO == <<" ", " ", " ", " ", "l", "o", ":", " ", "1", " ", "2">>

NET_LO0 == <<"l", "o", "0", ":", "3">>

NET_DOCKER0 == <<"d", "o", "c", "k", "e", "r", "0", ":", " ", "4">>

NET_DOCK == <<"d", "o", "c", "k", ":">>

NET_VETH1A == <<"v", "e", "t", "h", "1", "a", ":", " ", "2">>

NET_NO_COLON == <<"e", "t", "h", "0", " ", "5", " ", "7">>

NET_BLANK_NAME == <<" ", "\t", ":", " ", "9">>

NET_NAME15 == <<"a", "b", "c", "d", "e", "f", "g", "h", "i", "j", "k", "l", "m",
      "n", "o", ":", "1">>

NET_NAME16 == <<" ", "a", "b", "c", "d", "e", "f", "g", "h", "i", "j", "k", "l",
      "m", "n", "o", "p", " ", ":", " ", "1">>

NET_TWO_COLONS == <<"\t", "v", "e", " ", ":", " ", "1", ":", "2">>

NetHeadLines == {NET_HEADER, NET_ETH0}

NetLines ==
    {<<>>, NET_ETH0, NET_LO, NET_LO0, NET_DOCKER0, NET_DOCK, NET_VETH1A, NET_NO_COLON,
     NET_BLANK_NAME, NET_NAME15, NET_NAME16, NET_TWO_COLONS}

SeqsUpTo(S, n) == UNION {[1..k -> S] : k \in 0..n}

\* the lines of a buffer: up to two first lines and, after two of them, up
\* to MaxNetLines more
NetLineSeqs ==
    SeqsUpTo(NetHeadLines, 1)
    \cup {head \o body : head \in [1..2 -> NetHeadLines], body \in SeqsUpTo(NetLines, MaxNetLines)}

\* a source whose last line is empty and has no newline is the source
\* without that line
NetSources ==
    {src \in [lines : NetLineSeqs, newline : BOOLEAN] :
        src.newline \/ src.lines = <<>> \/ src.lines[Len(src.lines)] # <<>>}

InitNetParse ==
    /\ InitIdle
    /\ fn_call \in {FnCall("parse_network", <<src.lines, src.newline>>) : src \in NetSources}

CallParseNetwork ==
    /\ Pending("parse_network")
    /\ Return(parse_network(StatBuffer(fn_call.args[1], fn_call.args[2])))
    /\ Idle

SpecNetParse == InitNetParse /\ [][CallParseNetwork]_vars

\* the first colon of a line, the text before it, and that text between its
\* first and its last character that is not whitespace
HasColon(line) == \E i \in DOMAIN line : line[i] = ":"

FirstColon(line) ==
    CHOOSE i \in DOMAIN line : line[i] = ":" /\ \A j \in 1..(i - 1) : line[j] # ":"

Inked(s) == {i \in DOMAIN s : ~is_whitespace(s[i])}

Trimmed(s) ==
    IF Inked(s) = {} THEN <<>>
    ELSE SubSeq(s, CHOOSE i \in Inked(s) : \A j \in Inked(s) : i <= j,
                   CHOOSE i \in Inked(s) : \A j \in Inked(s) : i >= j)

LineName(line) == Trimmed(SubSeq(line, 1, FirstColon(line) - 1))

NameKept(name) ==
    /\ name # <<>>
    /\ Len(name) <= 15
    /\ name # <<"l", "o">>
    /\ ~starts_with(name, <<"d", "o", "c", "k", "e", "r">>)
    /\ ~starts_with(name, <<"v", "e", "t", "h">>)

\* the k-th line of the source `lines` yields a record
YieldsRecord(lines, k) == k > 2 /\ HasColon(lines[k]) /\ NameKept(LineName(lines[k]))

----------------------------------------------------------------------------
(* f64 at full precision, for the arithmetic of memory.rs:36: a finite f64  *)
(* that is not negative is [m, e] with the value m * 2^e, where m is a      *)
(* natural of F64Limbs limbs that is 0 (and e = 0) or lies in 2^52 ..       *)
(* 2^53 - 1.  Every operation rounds to nearest, ties to even.              *)

F64Limbs == 16

Wide(a) == a \o [i \in 1..(F64Limbs - Len(a)) |-> 0]

WZero == Wide(<<>>)

WOne == Wide(<<1>>)

WAdd(a, b) == SubSeq(LimbsAdd(a, b, 1, 0), 1, F64Limbs)

WSub(a, b) == LimbsSub(a, b, 1, 0)

\* a * m for a natural m <= 2^15
WMul(a, m) == SubSeq(LimbsMul(a, m, 1, 0), 1, F64Limbs)

WLess(a, b) == LimbsLess(a, b, F64Limbs)

WLimbAt(a, j) == IF j <= F64Limbs THEN a[j] ELSE 0

\* a * 2^n
WShl(a, n) == WMul(SubSeq([i \in 1..(n \div 16) |-> 0] \o a, 1, F64Limbs), Pow2(n % 16))

\* a / 2^n, rounded down
WShr(a, n) ==
    [i \in 1..F64Limbs |->
        (WLimbAt(a, i + (n \div 16)) \div Pow2(n % 16))
        + (WLimbAt(a, i + (n \div 16) + 1) % Pow2(n % 16)) * Pow2(16 - (n % 16))]

\* the number of bits of a
RECURSIVE WTop(_, _)
WTop(a, i) == IF i = 0 \/ a[i] # 0 THEN i ELSE WTop(a, i - 1)

LimbBits(x) == CHOOSE k \in 0..16 : x < Pow2(k) /\ (k = 0 \/ Pow2(k - 1) <= x)

WBitsAt(a, top) == IF top = 0 THEN 0 ELSE 16 * (top - 1) + LimbBits(a[top])

WBits(a) == WBitsAt(a, WTop(a, F64Limbs))

\* the largest q in lo..hi with q * d <= w, given lo * d <= w and hi <= 2^15
RECURSIVE WDigitSearch(_, _, _, _)
WDigitSearch(w, d, lo, hi) ==
    IF lo = hi THEN lo
    ELSE IF ~WLess(w, WMul(d, (lo + hi + 1) \div 2))
    THEN WDigitSearch(w, d, (lo + hi + 1) \div 2, hi)
    ELSE WDigitSearch(w, d, lo, ((lo + hi + 1) \div 2) - 1)

\* long division in base 2^14: [q, r] with q * 2^(14 * (j + 1)) + r / b the
\* quotient so far, for r < b * 2^(14 * (j + 1))
RECURSIVE WDivLoop(_, _, _, _)
WDivStep(r, b, j, q, bs, d) ==
    WDivLoop(WSub(r, WMul(bs, d)), b, j - 1, WAdd(WMul(q, Pow2(14)), Wide(<<d>>)))

WDivDigit(r, b, j, q, bs) ==
    WDivStep(r, b, j, q, bs, WDigitSearch(r, bs, 0, Pow2(14) - 1))

WDivLoop(r, b, j, q) ==
    IF j < 0 THEN [q |-> q, r |-> r] ELSE WDivDigit(r, b, j, q, WShl(b, 14 * j))

F64Zero == [m |-> WZero, e |-> 0]

\* n + 1 as a mantissa: 2^53 is 2^52 with the exponent one up
f64_round_up(n, e) ==
    IF WBits(WAdd(n, WOne)) > 53
    THEN [m |-> WShr(WAdd(n, WOne), 1), e |-> e + 1]
    ELSE [m |-> WAdd(n, WOne), e |-> e]

\* n + rem / (2 * half) rounded to an integer, ties to even
f64_round_pick(n, rem, half, e) ==
    IF WLess(half, rem) \/ (rem = half /\ n[1] % 2 = 1)
    THEN f64_round_up(n, e)
    ELSE [m |-> n, e |-> e]

\* x * 2^e for x of bits > 53 bits
f64_round_shift(x, e, s) ==
    f64_round_pick(WShr(x, s), WSub(x, WShl(WShr(x, s), s)), WShl(WOne, s - 1), e + s)

f64_round_bits(x, e, bits) ==
    IF bits = 0 THEN F64Zero
    ELSE IF bits <= 53 THEN [m |-> WShl(x, 53 - bits), e |-> e - (53 - bits)]
    ELSE f64_round_shift(x, e, bits - 53)

\* the f64 nearest to x * 2^e
f64_round(x, e) == f64_round_bits(x, e, WBits(x))

\* `u as f64` for a u64
u64_as_f64(u) == f64_round(Wide(u), 0)

\* a * c for an f64 a and a natural c <= 2^15
f64_mul_small(a, c) == f64_round(WMul(a.m, c), a.e)

\* the quotient to 55 bits or more, with one more bit telling whether the
\* division left a remainder
f64_div_round(a, b, qr) ==
    f64_round(WAdd(WMul(qr.q, 2), Wide(<<IF qr.r = WZero THEN 0 ELSE 1>>)), (a.e - b.e) - 56)

\* a / b for b # 0
f64_div(a, b) ==
    IF a.m = WZero THEN F64Zero
    ELSE f64_div_round(a, b, WDivLoop(WShl(a.m, 55), b.m, 3, WZero))

\* a < b
f64_less(a, b) ==
    IF b.m = WZero THEN FALSE
    ELSE IF a.m = WZero THEN TRUE
    ELSE a.e < b.e \/ (a.e = b.e /\ WLess(a.m, b.m))

----------------------------------------------------------------------------
(* The parser of the memory source: memory.rs:5-60 and the copy of it the    *)
(* polling loop calls, main.rs:305-361.                                      *)

\* memory.rs:50-59, the loop over the bytes from position i on
RECURSIVE parse_number_loop(_, _, _, _)
parse_number_loop(line, i, num, in_num) ==
    IF i > Len(line) THEN num
    ELSE IF is_ascii_digit(line[i])
    THEN parse_number_loop(line, i + 1,
            wrapping_add(wrapping_mul(num, 10), U64(DigitValue(line[i]))), TRUE)
    ELSE IF in_num THEN num
    ELSE parse_number_loop(line, i + 1, num, in_num)

parse_number_from_line(line) == parse_number_loop(line, 1, U64Zero, FALSE)

\* b"MemTotal:" and b"MemAvailable:" (memory.rs:16, 19)
MemTotalKey == <<"M", "e", "m", "T", "o", "t", "a", "l", ":">>

MemAvailableKey ==
    <<"M", "e", "m", "A", "v", "a", "i", "l", "a", "b", "l", "e", ":">>

\* memory.rs:16-25; st = [total_kib, available_kib, found_both, break]
mem_line(st, line) ==
    IF starts_with(line, MemTotalKey) /\ (st.found_both % 2) = 0
    THEN [st EXCEPT !.total_kib = parse_number_from_line(line),
                    !.found_both = @ + 1]
    ELSE IF starts_with(line, MemAvailableKey) /\ (st.found_both \div 2) % 2 = 0
    THEN [st EXCEPT !.available_kib = parse_number_from_line(line),
                    !.found_both = @ + 2,
                    !.break = (st.found_both + 2 = 3)]
    ELSE st

\* memory.rs:11-12, the bytes from i on that end no line
RECURSIVE mem_line_scan(_, _)
mem_line_scan(data, i) ==
    IF data[i] = "\n" \/ i = Len(data) THEN i ELSE mem_line_scan(data, i + 1)

\* memory.rs:13-25, the line from line_start to the byte i that ends it
mem_line_at(data, line_start, i, st) ==
    mem_line(st, SubSeq(data, line_start, IF data[i] = "\n" THEN i - 1 ELSE i))

\* memory.rs:11-29, the loop from the start of a line on
RECURSIVE collect_memory_loop(_, _, _)
collect_memory_loop(data, line_start, st) ==
    IF line_start > Len(data) \/ st.break THEN st
    ELSE collect_memory_loop(data, mem_line_scan(data, line_start) + 1,
            mem_line_at(data, line_start, mem_line_scan(data, line_start), st))

\* memory.rs:35-42
MemoryEntry(total_kib, available_kib) ==
    [total_kib     |-> total_kib,
     available_kib |-> available_kib,
     used_percent  |-> f64_div(f64_mul_small(
                                  u64_as_f64(saturating_sub(total_kib, available_kib)), 100),
                               u64_as_f64(total_kib))]

\* (mutant) a record whatever the total
collect_memory_unguarded(st) ==
    IF st.found_both # 3 THEN <<>>
    ELSE <<MemoryEntry(st.total_kib, st.available_kib)>>

\* memory.rs:31-42
collect_memory_return(st) ==
    IF st.total_kib = U64Zero \/ st.found_both # 3 THEN <<>>
    ELSE <<MemoryEntry(st.total_kib, st.available_kib)>>

collect_memory(data) ==
    collect_memory_return(collect_memory_loop(data, 1,
        [total_kib |-> U64Zero, available_kib |-> U64Zero, found_both |-> 0, break |-> FALSE]))

\* main.rs:331-342
main_collect_memory_return(st) ==
    IF st.total_kib = U64Zero THEN <<>>
    ELSE <<MemoryEntry(st.total_kib, st.available_kib)>>

\* main.rs:305-343, whose loop is that of memory.rs
main_collect_memory(data) ==
    main_collect_memory_return(collect_memory_loop(data, 1,
        [total_kib |-> U64Zero, available_kib |-> U64Zero, found_both |-> 0, break |-> FALSE]))

\* ---- lines of the memory source

MaxMemLines == 2

MEM_TOTAL == <<"M", "e", "m", "T", "o", "t", "a", "l", ":", " ", " ", " ", " ",
      " ", " ", " ", "8", "0", "0", "0", " ", "k", "B">>

MEM_TOTAL_ZERO == <<"M", "e", "m", "T", "o", "t", "a", "l", ":", " ", "0", " ", "k",
      "B">>

\* the least total t for which (t as f64 * 100.0) / t as f64 is not 100.0
MEM_TOTAL_HUGE == <<"M", "e", "m", "T", "o", "t", "a", "l", ":", " ", "3", "6", "0",
      "2", "8", "7", "9", "7", "0", "1", "8", "9", "6", "4", "3", " ",
      "k", "B">>

MEM_INDENTED == <<" ", "M", "e", "m", "T", "o", "t", "a", "l", ":", " ", "7", " ",
      "k", "B">>

MEM_FREE == <<"M", "e", "m", "F", "r", "e", "e", ":", " ", "5", " ", "k", "B">>

MEM_AVAILABLE == <<"M", "e", "m", "A", "v", "a", "i", "l", "a", "b", "l", "e", ":",
      " ", " ", " ", " ", "1", " ", "k", "B">>

MEM_AVAILABLE_ZERO == <<"M", "e", "m", "A", "v", "a", "i", "l", "a", "b", "l", "e", ":",
      " ", "0", " ", "k", "B">>

MEM_AVAILABLE_MORE == <<"M", "e", "m", "A", "v", "a", "i", "l", "a", "b", "l", "e", ":",
      " ", "2", "0", "0", "0", "0", " ", "k", "B">>

MemLines ==
    {MEM_TOTAL, MEM_TOTAL_ZERO, MEM_TOTAL_HUGE, MEM_INDENTED, MEM_FREE, MEM_AVAILABLE,
     MEM_AVAILABLE_ZERO, MEM_AVAILABLE_MORE}

MemSources ==
    {src \in [lines : SeqsUpTo(MemLines, MaxMemLines), newline : BOOLEAN] :
        src.newline \/ src.lines = <<>> \/ src.lines[Len(src.lines)] # <<>>}

InitMemory ==
    /\ InitIdle
    /\ fn_call \in {FnCall(fn, <<src.lines, src.newline>>) :
                       fn \in {"collect_memory", "main_collect_memory"}, src \in MemSources}

CallCollectMemory ==
    /\ Pending("collect_memory")
    /\ Return(collect_memory(StatBuffer(fn_call.args[1], fn_call.args[2])))
    /\ Idle

CallMainCollectMemory ==
    /\ Pending("main_collect_memory")
    /\ Return(main_collect_memory(StatBuffer(fn_call.args[1], fn_call.args[2])))
    /\ Idle

NextMemory == CallCollectMemory \/ CallMainCollectMemory

SpecMemory == InitMemory /\ [][NextMemory]_vars

\* the source holds a line of the field
HasField(lines, field) == \E k \in DOMAIN lines : starts_with(lines[k], field)

HasMemTotal(lines) == HasField(lines, MemTotalKey)

HasMemAvailable(lines) == HasField(lines, MemAvailableKey)

MemoryReturned == Returned("collect_memory") \/ Returned("main_collect_memory")

\* C12: collect_memory returns no record whenever the input lacks a MemTotal
\* line or lacks a MemAvailable line (for example an input holding only
\* `MemTotal: 8000 kB`).
C12_MissingFieldNoRecord ==
    MemoryReturned /\ (~HasMemTotal(fn_call.args[1]) \/ ~HasMemAvailable(fn_call.args[1]))
        => fn_call.ret = <<>>

\* C13 as stated: the memory record is absent only when the parse did not
\* find both fields: whenever the input holds both a MemTotal line and a
\* MemAvailable line, collect_memory returns a record.
C13_BothFieldsRecord ==
    MemoryReturned /\ HasMemTotal(fn_call.args[1]) /\ HasMemAvailable(fn_call.args[1])
        => fn_call.ret # <<>>

\* the number of the first MemTotal line of the source, 0 without one
FirstMemTotal(lines) ==
    IF ~HasMemTotal(lines) THEN U64Zero
    ELSE parse_number_from_line(
            lines[CHOOSE k \in DOMAIN lines :
                     /\ starts_with(lines[k], MemTotalKey)
                     /\ \A j \in 1..(k - 1) : ~starts_with(lines[j], MemTotalKey)])

\* C13: whenever the input holds both a MemTotal line and a MemAvailable
\* line and the number of its first MemTotal line is not 0, collect_memory
\* returns a record; whenever that number is 0, it returns none, both
\* fields found or not.
C13_BothFieldsNonZeroRecord ==
    MemoryReturned =>
        /\ /\ HasMemTotal(fn_call.args[1])
           /\ HasMemAvailable(fn_call.args[1])
           /\ FirstMemTotal(fn_call.args[1]) # U64Zero
           => fn_call.ret # <<>>
        /\ FirstMemTotal(fn_call.args[1]) = U64Zero => fn_call.ret = <<>>

\* both fields found and the total 0: no record
C13_Witness ==
    /\ Returned("collect_memory")
    /\ fn_call.args[1] = <<MEM_AVAILABLE, MEM_TOTAL_ZERO>>
    /\ fn_call.ret = <<>>

\* a * l for a limb l
WMulLimb(a, l) == WAdd(WMul(a, l % 256), WMul(WMul(a, l \div 256), 256))

\* a * b, from the limb i of b on
RECURSIVE WMulWide(_, _, _)
WMulWide(a, b, i) ==
    IF i > F64Limbs THEN WZero
    ELSE WAdd(WShl(WMulLimb(a, b[i]), 16 * (i - 1)), WMulWide(a, b, i + 1))

WAbsDiff(a, b) == IF WLess(a, b) THEN WSub(b, a) ELSE WSub(a, b)

F64Hundred == u64_as_f64(U64(100))

\* x is num / den to within the rounding of f64 (four roundings of at most
\* 2^-53 each, less than 2^-50 together): |x * den - num| <= num * 2^-50
F64Near(x, num, den) ==
    IF x.m = WZero THEN num = WZero
    ELSE ~WLess(WShl(num, 0 - x.e),
                WShl(WAbsDiff(WMulWide(x.m, den, 1), WShl(num, 0 - x.e)), 50))

\* C14: whenever collect_memory returns a record, used_percent equals
\* 100 * max(0, total - available) / total and lies in [0, 100]; available
\* greater than total gives exactly 0 and available equal to 0 gives exactly
\* 100.
UsedPercentAsStated(entry) ==
    /\ F64Near(entry.used_percent,
               WMul(Wide(saturating_sub(entry.total_kib, entry.available_kib)), 100),
               Wide(entry.total_kib))
    /\ ~f64_less(F64Hundred, entry.used_percent)
    /\ LimbsLess(entry.total_kib, entry.available_kib, 4) => entry.used_percent = F64Zero
    /\ entry.available_kib = U64Zero => entry.used_percent = F64Hundred

C14_UsedPercent ==
    MemoryReturned /\ fn_call.ret # <<>> => UsedPercentAsStated(fn_call.ret[1])

----------------------------------------------------------------------------
(* The rendering of a snapshot: main.rs:662-816 *)

\* main.rs:662-675, 694-707: the decimal digits of a natural
itoa_u8(n) == IF n = 0 THEN <<"0">> ELSE itoa_digits(n)

itoa_u32(n) == IF n = 0 THEN <<"0">> ELSE itoa_digits(n)

\* n / 10 and n % 10 for a u64, from the limb i down: [q, r]
RECURSIVE LimbsDivTen(_, _, _)
LimbsDivTenJoin(lower, digit) == [q |-> Append(lower.q, digit), r |-> lower.r]

LimbsDivTen(a, i, rem) ==
    IF i = 0 THEN [q |-> <<>>, r |-> rem]
    ELSE LimbsDivTenJoin(LimbsDivTen(a, i - 1, (rem * U64Limb + a[i]) % 10),
                         (rem * U64Limb + a[i]) \div 10)

\* main.rs:717-721, the loop of itoa_u64
RECURSIVE itoa_u64_digits(_)
itoa_u64_push(qr) == Append(itoa_u64_digits(qr.q), DigitChar(qr.r))

itoa_u64_digits(n) ==
    IF n = U64Zero THEN <<>> ELSE itoa_u64_push(LimbsDivTen(n, 4, 0))

\* main.rs:710-723
itoa_u64(n) == IF n = U64Zero THEN <<"0">> ELSE itoa_u64_digits(n)

\* `x as u64` for an f64 0 <= x < 2^64: the integer part
f64_as_u64(x) == IF x.e >= 0 THEN SubSeq(WShl(x.m, x.e), 1, 4) ELSE SubSeq(WShr(x.m, 0 - x.e), 1, 4)

\* x - i for an f64 x >= 0 and the integer i <= x of 2^53 at most: the
\* difference is an f64
f64_sub_int(x, i) ==
    IF x.e >= 0 THEN f64_round(WSub(WShl(x.m, x.e), Wide(i)), 0)
    ELSE f64_round(WSub(x.m, WShl(Wide(i), 0 - x.e)), x.e)

\* main.rs:735-740, the loop of ftoa_f64; the digit `frac as u8` is below
\* 2^16 and is pushed as the byte b'0' + digit
RECURSIVE ftoa_f64_loop(_, _)
ftoa_f64_digit(scaled, prec) ==
    <<DigitChar(f64_as_u64(scaled)[1])>>
    \o ftoa_f64_loop(f64_sub_int(scaled, f64_as_u64(scaled)), prec - 1)

ftoa_f64_loop(frac, prec) ==
    IF prec = 0 THEN <<>> ELSE ftoa_f64_digit(f64_mul_small(frac, 10), prec)

\* main.rs:726-741, for n >= 0
ftoa_f64(n, prec) ==
    itoa_u64(f64_as_u64(n)) \o <<".">> \o ftoa_f64_loop(f64_sub_int(n, f64_as_u64(n)), prec)

\* the same on the exact arithmetic the rates are kept in: `x as u64` for
\* 0 <= x < 2^31 and x - i for the integer i <= x
FTrunc(x) ==
    IF x.n <= 0 THEN 0
    ELSE IF x.k >= 0 THEN (x.n * Pow2(x.k)) \div x.d
    ELSE IF ~ShiftLeq(x.d, 0 - x.k, x.n) THEN 0
    ELSE x.n \div (x.d * Pow2(0 - x.k))

FSubInt(x, i) ==
    IF i = 0 THEN x
    ELSE IF x.k >= 0 THEN Norm(x.n * Pow2(x.k) - i * x.d, x.d, 0)
    ELSE Norm(x.n - i * x.d * Pow2(0 - x.k), x.d, x.k)

RECURSIVE ftoa_rate_loop(_, _)
ftoa_rate_digit(scaled, prec) ==
    <<DigitChar(FTrunc(scaled))>> \o ftoa_rate_loop(FSubInt(scaled, FTrunc(scaled)), prec - 1)

ftoa_rate_loop(frac, prec) ==
    IF prec = 0 THEN <<>> ELSE ftoa_rate_digit(FMul(frac, F64(10)), prec)

\* main.rs:726-741 for a rate n >= 0
ftoa_rate(n, prec) ==
    itoa_u32(FTrunc(n)) \o <<".">> \o ftoa_rate_loop(FSubInt(n, FTrunc(n)), prec)

\* main.rs:758-767, the entries from idx on
RECURSIVE payload_cpu(_, _)
payload_cpu(cpu, idx) ==
    IF idx > Len(cpu) THEN <<>>
    ELSE (IF idx > 1 THEN <<",">> ELSE <<>>)
         \o <<"[", "\"">> \o cpu[idx].id \o <<"\"", ",">> \o itoa_u32(cpu[idx].usage) \o <<"]">>
         \o payload_cpu(cpu, idx + 1)

\* main.rs:769-779
payload_memory(memory) ==
    IF memory # <<>>
    THEN <<"[">> \o itoa_u64(memory[1].total_kib) \o <<",">>
         \o itoa_u64(memory[1].available_kib) \o <<",">>
         \o ftoa_f64(memory[1].used_percent, 1) \o <<"]">>
    ELSE <<"n", "u", "l", "l">>

\* main.rs:782-797
RECURSIVE payload_network(_, _)
payload_network(network, idx) ==
    IF idx > Len(network) THEN <<>>
    ELSE (IF idx > 1 THEN <<",">> ELSE <<>>)
         \o <<"[", "\"">> \o network[idx].iface \o <<"\"", ",">>
         \o itoa_u8(network[idx].tx_level) \o <<",">>
         \o itoa_u8(network[idx].rx_level) \o <<",">>
         \o ftoa_rate(network[idx].tx_mib_s, 2) \o <<",">>
         \o ftoa_rate(network[idx].rx_mib_s, 2) \o <<"]">>
         \o payload_network(network, idx + 1)

\* main.rs:799-814
RECURSIVE payload_disks(_, _)
payload_disks(disks, idx) ==
    IF idx > Len(disks) THEN <<>>
    ELSE (IF idx > 1 THEN <<",">> ELSE <<>>)
         \o <<"[", "\"">> \o disks[idx].device \o <<"\"", ",">>
         \o itoa_u8(disks[idx].read_level) \o <<",">>
         \o itoa_u8(disks[idx].write_level) \o <<",">>
         \o ftoa_rate(disks[idx].read_mib_s, 2) \o <<",">>
         \o ftoa_rate(disks[idx].write_mib_s, 2) \o <<"]">>
         \o payload_disks(disks, idx + 1)

\* main.rs:746-816
build_payload(cpu, memory, network, disks) ==
    <<"{", "\"", "c", "\"", ":", "[">> \o payload_cpu(cpu, 1)
    \o <<"]", ",", "\"", "m", "\"", ":">> \o payload_memory(memory)
    \o <<",", "\"", "n", "\"", ":", "[">> \o payload_network(network, 1)
    \o <<"]", ",", "\"", "d", "\"", ":", "[">> \o payload_disks(disks, 1)
    \o <<"]", "}">>

----------------------------------------------------------------------------
(* The polling loop of main (main.rs:143-181), one action per source read   *)
(* and collected and one for the payload built and written.  An operation   *)
(* that fails ends main within the action.  The sleep at the end of a       *)
(* cycle changes no state.                                                   *)

\* the sources a cycle can read
LoopStatInputs == {<<>>, <<STAT_CPU0_A>>}

LoopMeminfoInputs == {<<>>, <<MEM_TOTAL, MEM_AVAILABLE>>}

LoopNetParsedInputs == {EmptyMap, Put(EmptyMap, ETH0, <<1, 0>>)}

LoopDiskParsedInputs == {EmptyMap, Put(EmptyMap, SDA, <<1, 0>>)}

LoopElapsedInputs == {TicksPerSec}

\* io::ErrorKind of the error of a failed pread64 and of a failed write
ReadErrors == {"Other"}

WriteErrors == {"BrokenPipe", "Other"}

LoopStart == [NoLoop EXCEPT !.pc = "cpu"]

InitLoop ==
    /\ InitNet
    /\ InitDisk
    /\ InitCpu
    /\ seen_active = [net |-> {}, disk |-> {}]
    /\ fn_call = NoFn
    /\ calls = [net |-> 0, disk |-> 0]
    /\ main_loop = LoopStart

\* `?` on the Err of pread_file (main.rs:149, 152, 156, 161) and `return
\* Err(err)` (main.rs:171): main returns the error
main_return_err(op, err) ==
    main_loop' = [main_loop EXCEPT !.pc = "returned",
                                   !.failed = <<[op |-> op, kind |-> err]>>,
                                   !.returned = <<[ok |-> FALSE, err |-> err]>>]

\* main.rs:169, 180: the loop left by `break`, main returns Ok(())
main_break(op, err) ==
    main_loop' = [main_loop EXCEPT !.pc = "returned",
                                   !.failed = <<[op |-> op, kind |-> err]>>,
                                   !.returned = <<[ok |-> TRUE, err |-> "none"]>>]

\* main.rs:144-150
LoopCpu ==
    /\ main_loop.pc = "cpu"
    /\ \/ /\ \E err \in ReadErrors : main_return_err("pread_file", err)
          /\ cpu_entries' = <<>>
          /\ UNCHANGED <<cpu_prev, cpu_call>>
       \/ /\ \E lines \in LoopStatInputs :
                cpu_return(lines, collect_cpu(StatBuffer(lines, TRUE), cpu_prev))
          /\ \E elapsed \in LoopElapsedInputs :
                main_loop' = [main_loop EXCEPT !.pc = "memory", !.elapsed = elapsed,
                                               !.wrote = FALSE, !.stdout = <<>>]
    /\ UNCHANGED <<net_vars, disk_vars, seen_active, fn_call, calls>>

\* main.rs:152-153
LoopMemory ==
    /\ main_loop.pc = "memory"
    /\ \/ \E err \in ReadErrors : main_return_err("pread_file", err)
       \/ \E lines \in LoopMeminfoInputs :
             main_loop' = [main_loop EXCEPT
                              !.pc = "network",
                              !.memory = main_collect_memory(StatBuffer(lines, TRUE))]
    /\ UNCHANGED <<net_vars, disk_vars, cpu_vars, seen_active, fn_call, calls>>

\* main.rs:155-158
LoopNetwork ==
    /\ main_loop.pc = "network"
    /\ \/ /\ \E err \in ReadErrors : main_return_err("pread_file", err)
          /\ net_entries' = <<>>
          /\ UNCHANGED <<net_prev, net_call, seen_active>>
       \/ /\ \E parsed \in LoopNetParsedInputs :
               \E order \in Orders(DOMAIN parsed) :
                  main_network_return(FloorElapsed(main_loop.elapsed), parsed, order,
                      main_calculate_network_rates(main_loop.elapsed, parsed, order,
                                                   net_prev))
          /\ main_loop' = [main_loop EXCEPT !.pc = "disk"]
    /\ UNCHANGED <<net_max_rates, net_watch, disk_vars, cpu_vars, fn_call, calls>>

\* main.rs:160-163
LoopDisk ==
    /\ main_loop.pc = "disk"
    /\ \/ /\ \E err \in ReadErrors : main_return_err("pread_file", err)
          /\ disk_entries' = <<>>
          /\ UNCHANGED <<disk_prev, disk_call, seen_active>>
       \/ /\ \E parsed \in LoopDiskParsedInputs :
               \E order \in Orders(DOMAIN parsed) :
                  main_disk_return(FloorElapsed(main_loop.elapsed), parsed, order,
                      main_calculate_disk_rates(main_loop.elapsed, parsed, order,
                                                disk_prev))
          /\ main_loop' = [main_loop EXCEPT !.pc = "write"]
    /\ UNCHANGED <<disk_max_rates, disk_watch, net_vars, cpu_vars, fn_call, calls>>

\* main.rs:831-836 without a failure: the payload and a newline on stdout
main_written(payload) ==
    main_loop' = [main_loop EXCEPT !.pc = "cpu", !.payload = payload,
                                   !.stdout = payload \o <<"\n">>, !.wrote = TRUE]

\* (mutant) every failed write leaves the loop by `break`
main_write_failed_break(err) == main_break("write_payload", err)

\* main.rs:167-172
main_write_failed(err) ==
    IF err = "BrokenPipe"
    THEN main_break("write_payload", err)
    ELSE main_return_err("write_payload", err)

\* main.rs:165-178
LoopWrite ==
    /\ main_loop.pc = "write"
    /\ \/ main_written(build_payload(cpu_entries, main_loop.memory, net_entries,
                                     disk_entries))
       \/ \E err \in WriteErrors : main_write_failed(err)
    /\ UNCHANGED <<net_vars, disk_vars, cpu_vars, seen_active, fn_call, calls>>

NextLoop == LoopCpu \/ LoopMemory \/ LoopNetwork \/ LoopDisk \/ LoopWrite

SpecLoop == InitLoop /\ [][NextLoop]_vars

\* ---- the shape of an emitted line

\* the position i of the text s lies inside a string
InString(s, i) == Cardinality({j \in 1..(i - 1) : s[j] = "\""}) % 2 = 1

\* the number of objects and lists open at the position i of s
Depth(s, i) ==
    Cardinality({j \in 1..(i - 1) : s[j] \in {"{", "["} /\ ~InString(s, j)})
    - Cardinality({j \in 1..(i - 1) : s[j] \in {"}", "]"} /\ ~InString(s, j)})

\* the colons that follow the keys of the top-level object
KeyColons(s) == {i \in DOMAIN s : s[i] = ":" /\ ~InString(s, i) /\ Depth(s, i) = 1}

\* the key before the colon at i: the text between the two quotes before it
KeyAt(s, i) ==
    SubSeq(s, 1 + CHOOSE j \in 1..(i - 2) :
                      s[j] = "\"" /\ \A k \in (j + 1)..(i - 2) : s[k] # "\"",
              i - 2)

\* the elements of a set of naturals in increasing order
RECURSIVE Increasing(_)
Increasing(S) ==
    IF S = {} THEN <<>>
    ELSE Increasing(S \ {CHOOSE x \in S : \A y \in S : y <= x})
         \o <<CHOOSE x \in S : \A y \in S : y <= x>>

TopLevelKeys(s) == [k \in DOMAIN Increasing(KeyColons(s)) |-> KeyAt(s, Increasing(KeyColons(s))[k])]

\* the value of the top-level key `key` of s is a list
IsList(s, key) == \E i \in KeyColons(s) : KeyAt(s, i) = key /\ s[i + 1] = "["

\* the bytes are one line: a single newline, at the end
OneLine(bytes) ==
    /\ bytes # <<>>
    /\ bytes[Len(bytes)] = "\n"
    /\ \A i \in 1..(Len(bytes) - 1) : bytes[i] # "\n"

\* C15: every cycle emits exactly one output line whose top-level keys are
\* c, m, n, d and t in that order, the values of c, n and d being lists (if
\* only []) whatever the number of their entries.
C15_PayloadShape ==
    main_loop.wrote =>
        /\ OneLine(main_loop.stdout)
        /\ main_loop.stdout = main_loop.payload \o <<"\n">>
        /\ TopLevelKeys(main_loop.payload) = <<<<"c">>, <<"m">>, <<"n">>, <<"d">>, <<"t">>>>
        /\ IsList(main_loop.payload, <<"c">>)
        /\ IsList(main_loop.payload, <<"n">>)
        /\ IsList(main_loop.payload, <<"d">>)

\* ---- the end of the loop

\* the statement group after that of pc
NextPc(pc) ==
    CASE pc = "cpu" -> "memory"
      [] pc = "memory" -> "network"
      [] pc = "network" -> "disk"
      [] pc = "disk" -> "write"
      [] pc = "write" -> "cpu"

LoopEnded == main_loop.returned # <<>>

BrokenPipeOnWrite ==
    /\ main_loop.failed # <<>>
    /\ main_loop.failed[1].op = "write_payload"
    /\ main_loop.failed[1].kind = "BrokenPipe"

\* main has returned exactly when an operation has failed; it has returned
\* Ok(()) exactly when write_payload failed with a broken pipe, and else the
\* error of the operation that failed
ExitAsStated ==
    /\ LoopEnded <=> main_loop.failed # <<>>
    /\ LoopEnded <=> main_loop.pc = "returned"
    /\ LoopEnded => (main_loop.returned[1].ok <=> BrokenPipeOnWrite)
    /\ LoopEnded /\ ~main_loop.returned[1].ok =>
          main_loop.returned[1].err = main_loop.failed[1].kind

\* a step of main: none once main has returned (no retry); one that fails
\* ends main; one that does not goes on to the next statement group, the
\* next cycle starting after the write of this one
C16_Step ==
    /\ ~LoopEnded
    /\ ExitAsStated'
    /\ main_loop'.failed = <<>> => main_loop'.pc = NextPc(main_loop.pc)
    /\ main_loop.pc = "write" /\ main_loop'.failed = <<>> => main_loop'.wrote

\* C16: the polling loop ends with a successful exit exactly when writing the
\* payload fails with a broken pipe; a failed read of one of the four
\* sources and any other write failure end it with the error returned and
\* no retry; when no operation fails the loop does not end and goes through
\* its cycles one after another.
C16_LoopExit == [][C16_Step]_vars

\* the consumer gone after a first line was written
C16_Witness ==
    /\ LoopEnded
    /\ main_loop.returned[1].ok
    /\ main_loop.payload # <<>>

----------------------------------------------------------------------------
(* The baseline update of a cycle (disk.rs:131-154) *)

\* the DiskDeviceState the cycle starts from: the stored one, or the one
\* or_insert puts in (disk.rs:132)
DiskStateBefore(name) ==
    IF name \in DOMAIN disk_max_rates THEN disk_max_rates[name] ELSE DiskDeviceState_new

\* max(rate_a, rate_b) of the cycle that has just run
DiskCombined(name) ==
    FMax(disk_call'.rates[name][1], disk_call'.rates[name][2])

\* the three cases, m and below being the values before the cycle
BaselineAsStated(m, below, combined, elapsed, after) ==
    IF FLess(m, combined)
    THEN /\ after.max_rate = combined
         /\ after.time_below_half_max = 0
    ELSE IF FLess(combined, FDiv(m, F64(2)))
    THEN \/ /\ below + elapsed < DecayTicks
            /\ after.time_below_half_max = below + elapsed
            /\ after.max_rate = m
         \/ /\ below + elapsed >= DecayTicks
            /\ after.time_below_half_max = 0
            /\ after.max_rate = FDiv(m, F64(2))
    ELSE /\ after.time_below_half_max = 0
         /\ after.max_rate = m

C17_Step ==
    DiskCalled =>
       \A name \in DOMAIN disk_call'.parsed :
          BaselineAsStated(DiskStateBefore(name).max_rate,
                           DiskStateBefore(name).time_below_half_max,
                           DiskCombined(name), disk_call'.elapsed,
                           disk_max_rates'[name])

\* C17: in a cycle, for every device processed, with combined the larger of
\* its two rates and m its max_rate before the cycle: combined > m makes
\* max_rate combined and time_below_half_max 0; otherwise combined < m/2 adds
\* the floored elapsed time to time_below_half_max; otherwise
\* time_below_half_max becomes 0; in the last two cases max_rate stays m
\* unless the decay step that follows fires (it then halves m and clears the
\* time).
C17_BaselineUpdate == [][C17_Step]_vars

\* a device with a raised baseline that has been below half of it for 5 s
C17_Witness ==
    /\ SDA \in DOMAIN disk_call.parsed
    /\ FLess(FOne, disk_max_rates[SDA].max_rate)
    /\ disk_max_rates[SDA].time_below_half_max = 5 * TicksPerSec
    /\ disk_call.elapsed = 5 * TicksPerSec

\* ---- rate_to_level against its formula (network.rs:202-209, disk.rs:193-200)

\* ceil(min(rate / reference, 1) * 10) for rate > 0 and reference > 0: the
\* least whole number L with rate * 10 <= L * reference, and 10 when
\* rate >= reference
CeilOfTenths(rate, reference) ==
    IF FLeq(reference, rate) THEN 10
    ELSE CHOOSE L \in 0..10 :
            /\ FLeq(FMul(rate, F64(10)), FMul(F64(L), reference))
            /\ \A K \in 0..10 :
                  FLeq(FMul(rate, F64(10)), FMul(F64(K), reference)) => L <= K

LevelAsStated(rate, reference) ==
    IF FLeq(rate, FZero) \/ FLeq(reference, FZero) THEN 0
    ELSE CeilOfTenths(rate, reference)

\* the three values the claim names
LevelExamples(rate, reference, level) ==
    /\ level \in 0..10
    /\ FLess(FZero, reference) /\ FMul(rate, F64(4)) = reference => level = 3
    /\ FLess(FZero, reference) /\ FMul(rate, F64(2)) = reference => level = 5
    /\ FLess(FZero, reference) /\ FLeq(reference, rate) => level = 10

LevelFormula(r1, r2, m, levels) ==
    /\ levels[1] = LevelAsStated(r1, m)
    /\ levels[2] = LevelAsStated(r2, m)
    /\ levels[5] = LevelAsStated(r2, r1)
    /\ LevelExamples(r1, m, levels[1])
    /\ LevelExamples(r2, m, levels[2])
    /\ LevelExamples(r2, r1, levels[5])

\* C18: rate_to_level(rate, reference) is 0 when rate <= 0 or reference <= 0
\* and ceil(min(rate / reference, 1) * 10) otherwise; it always lies in 0..10,
\* a quarter of the reference gives 3, half of it 5, and a rate at or above
\* the reference 10.
C18_LevelFormula ==
    Returned("rate_to_level") =>
        /\ LevelFormula(fn_call.args[1], fn_call.args[2], fn_call.args[3],
                        fn_call.ret.net)
        /\ LevelFormula(fn_call.args[1], fn_call.args[2], fn_call.args[3],
                        fn_call.ret.disk)

\* a quarter and a half of the baseline
C18_Witness ==
    /\ Returned("rate_to_level")
    /\ FMul(fn_call.args[1], F64(4)) = fn_call.args[3]
    /\ FMul(fn_call.args[2], F64(2)) = fn_call.args[3]
    /\ fn_call.ret.disk[1] = 3
    /\ fn_call.ret.disk[2] = 5
    /\ fn_call.ret.net[1] = 3
    /\ fn_call.ret.net[2] = 5

\* a positive rate against a negative reference, and against a smaller one
C18_GuardWitness ==
    /\ Returned("rate_to_level")
    /\ FLess(fn_call.args[1], FZero)
    /\ FLess(fn_call.args[3], fn_call.args[2])
    /\ fn_call.ret.disk[5] = 0
    /\ fn_call.ret.disk[2] = 10

----------------------------------------------------------------------------
(* Truncated lines of the network source (network.rs:29-112) *)

\* the numbers of a text: its maximal runs of digits
NumberStarts(s) ==
    {i \in DOMAIN s : is_ascii_digit(s[i]) /\ (i = 1 \/ ~is_ascii_digit(s[i - 1]))}

\* the fields parse_network_counters reads are the 1st and the 9th number
\* after the colon (network.rs:94-101)
NetFieldsNeeded == 9

\* an interface line that ends before its 9th number
NetTruncated(line) ==
    /\ HasColon(line)
    /\ Cardinality(NumberStarts(SubSeq(line, FirstColon(line) + 1, Len(line))))
          < NetFieldsNeeded

\* what the k-th line yields when the truncated lines are left out of the
\* buffer: the first two lines of what is left yield nothing
YieldWithout(lines, k) ==
    IF Cardinality({j \in 1..(k - 1) : ~NetTruncated(lines[j])}) < 2 THEN <<>>
    ELSE parse_network_line(lines[k])

\* C19: a truncated line of the network source (one that lacks a field the
\* parser needs) yields no record, the parse goes on to the end of the
\* buffer, and every other line yields what it yields when the truncated
\* lines are not there.
C19_TruncatedSkipped ==
    Returned("parse_network") =>
        /\ Len(fn_call.ret.trace) = Len(fn_call.args[1])
        /\ \A k \in DOMAIN fn_call.ret.trace :
              IF NetTruncated(fn_call.args[1][k])
              THEN fn_call.ret.trace[k].yielded = <<>>
              ELSE fn_call.ret.trace[k].yielded = YieldWithout(fn_call.args[1], k)

----------------------------------------------------------------------------
(* process_cpu_line on one line (cpu.rs:24-59) *)

STAT_CPU255 == <<"c", "p", "u", "2", "5", "5", " ", "4", " ", "0", " ", "0", " ",
      "1", " ", "0">>

STAT_CPU0256 == <<"c", "p", "u", "0", "2", "5", "6", " ", "4", " ", "0", " ", "0",
      " ", "1", " ", "0">>

STAT_CPU007 == <<"c", "p", "u", "0", "0", "7", " ", "4", " ", "0", " ", "0", " ",
      "1", " ", "0">>

STAT_CPU99999 == <<"c", "p", "u", "9", "9", "9", "9", "9", " ", "4", " ", "0", " ",
      "0", " ", "1", " ", "0">>

\* the index 2^64
STAT_CPU_2_64 == <<"c", "p", "u", "1", "8", "4", "4", "6", "7", "4", "4", "0", "7",
      "3", "7", "0", "9", "5", "5", "1", "6", "1", "6", " ", "4", " ",
      "0", " ", "0", " ", "1", " ", "0">>

\* the index 2^64 + 255
STAT_CPU_2_64_255 == <<"c", "p", "u", "1", "8", "4", "4", "6", "7", "4", "4", "0", "7",
      "3", "7", "0", "9", "5", "5", "1", "8", "7", "1", " ", "4", " ",
      "0", " ", "0", " ", "1", " ", "0">>

\* the index 2^64 + 256
STAT_CPU_2_64_256 == <<"c", "p", "u", "1", "8", "4", "4", "6", "7", "4", "4", "0", "7",
      "3", "7", "0", "9", "5", "5", "1", "8", "7", "2", " ", "4", " ",
      "0", " ", "0", " ", "1", " ", "0">>

\* the index 2^64 - 1
STAT_CPU_MAX == <<"c", "p", "u", "1", "8", "4", "4", "6", "7", "4", "4", "0", "7",
      "3", "7", "0", "9", "5", "5", "1", "6", "1", "5", " ", "4", " ",
      "0", " ", "0", " ", "1", " ", "0">>

STAT_CPU0_SHORT == <<"c", "p", "u", "0">>

STAT_CPU0_BARE == <<"c", "p", "u", "0", " ">>

STAT_CPUX == <<"c", "p", "u", "x", " ", "4", " ", "0", " ", "0", " ", "1", " ",
      "0">>

STAT_CPU3X == <<"c", "p", "u", "3", "x", " ", "4", " ", "0", " ", "0", " ", "1",
      " ", "0">>

STAT_CPU_MINUS == <<"c", "p", "u", "-", "1", " ", "4", " ", "0", " ", "0", " ", "1",
      " ", "0">>

STAT_UPPER == <<"C", "P", "U", "0", " ", "4", " ", "0", " ", "0", " ", "1", " ",
      "0">>

STAT_INDENTED == <<" ", "c", "p", "u", "0", " ", "4", " ", "0", " ", "0", " ", "1",
      " ", "0">>

STAT_CP == <<"c", "p">>

CpuLines ==
    {<<>>, STAT_CPU0_A, STAT_CPU1_B, STAT_CPU2, STAT_AGGREGATE, STAT_CPU256, STAT_INTR,
     STAT_CPU255, STAT_CPU0256, STAT_CPU007, STAT_CPU99999, STAT_CPU_2_64,
     STAT_CPU_2_64_255, STAT_CPU_2_64_256, STAT_CPU_MAX, STAT_CPU0_SHORT,
     STAT_CPU0_BARE, STAT_CPUX, STAT_CPU3X, STAT_CPU_MINUS, STAT_UPPER, STAT_INDENTED,
     STAT_CP}

\* previous-sample tables: empty, and with the slots 0, 7 and 255 taken
CpuTables ==
    {EmptyMap,
     Put(EmptyMap, 0, [total |-> U64(1), idle |-> U64(1)]),
     Put(Put(EmptyMap, 0, [total |-> U64(2), idle |-> U64(0)]),
         7, [total |-> U64(1), idle |-> U64(0)]),
     Put(EmptyMap, 255, [total |-> U64(3), idle |-> U64(1)])}

InitCpuLine ==
    /\ InitIdle
    /\ fn_call \in {FnCall("process_cpu_line", <<line, prev>>) :
                       line \in CpuLines, prev \in CpuTables}

\* what the call leaves in prev and entries and, where the index exceeds
\* usize, the panic of a build that checks overflow
process_cpu_line_outcomes(line, prev) ==
    {[panic |-> FALSE,
      prev |-> process_cpu_line(line, [prev |-> prev, entries |-> <<>>, trace |-> <<>>]).prev,
      entries |->
          process_cpu_line(line, [prev |-> prev, entries |-> <<>>, trace |-> <<>>]).entries]}
    \cup (IF cpu_idx_overflows(line)
          THEN {[panic |-> TRUE, prev |-> prev, entries |-> <<>>]}
          ELSE {})

CallProcessCpuLine ==
    /\ Pending("process_cpu_line")
    /\ \E outcome \in process_cpu_line_outcomes(fn_call.args[1], fn_call.args[2]) :
          Return(outcome)
    /\ Idle

SpecCpuLine == InitCpuLine /\ [][CallProcessCpuLine]_vars

\* the digits that follow "cpu", and those after their leading zeros
RECURSIVE IndexDigits(_, _)
IndexDigits(line, pos) ==
    IF pos <= Len(line) /\ is_ascii_digit(line[pos])
    THEN <<line[pos]>> \o IndexDigits(line, pos + 1)
    ELSE <<>>

RECURSIVE Significant(_)
Significant(digits) ==
    IF digits # <<>> /\ Head(digits) = "0" THEN Significant(Tail(digits)) ELSE digits

\* the value of at most three digits
SmallValue(digits) ==
    IF digits = <<>> THEN 0
    ELSE IF Len(digits) = 1 THEN DigitValue(digits[1])
    ELSE IF Len(digits) = 2 THEN DigitValue(digits[1]) * 10 + DigitValue(digits[2])
    ELSE (DigitValue(digits[1]) * 100 + DigitValue(digits[2]) * 10) + DigitValue(digits[3])

\* the line starts with "cpu" immediately followed by a decimal index that
\* is below 256
IndexedBelow256(line) ==
    /\ starts_with(line, <<"c", "p", "u">>)
    /\ IndexDigits(line, 4) # <<>>
    /\ Len(Significant(IndexDigits(line, 4))) <= 3
    /\ SmallValue(Significant(IndexDigits(line, 4))) < 256

CpuLineAccepted(prev, ret) == ret.entries # <<>> \/ ret.prev # prev

\* C20: a line of the CPU source is accepted only if it starts with "cpu"
\* immediately followed by a decimal index below 256; every other line (the
\* aggregate line, a line that does not start with "cpu", an index of 256 or
\* more with any number of digits) produces no entry and leaves every slot
\* of the previous-sample table as it was.
C20_IndexBound ==
    Returned("process_cpu_line") =>
        /\ CpuLineAccepted(fn_call.args[2], fn_call.ret) => IndexedBelow256(fn_call.args[1])
        /\ ~IndexedBelow256(fn_call.args[1]) =>
              /\ ~fn_call.ret.panic
              /\ fn_call.ret.entries = <<>>
              /\ fn_call.ret.prev = fn_call.args[2]

\* the same, for the lines whose index fits usize
C20_IndexBoundInRange ==
    (Returned("process_cpu_line") /\ ~cpu_idx_overflows(fn_call.args[1])) =>
        /\ CpuLineAccepted(fn_call.args[2], fn_call.ret) => IndexedBelow256(fn_call.args[1])
        /\ ~IndexedBelow256(fn_call.args[1]) =>
              /\ ~fn_call.ret.panic
              /\ fn_call.ret.entries = <<>>
              /\ fn_call.ret.prev = fn_call.args[2]

\* the index 2^64 - 1 rejected with the slots 0 and 7 in place
C20_InRangeWitness ==
    /\ Returned("process_cpu_line")
    /\ fn_call.args[1] = STAT_CPU_MAX
    /\ DOMAIN fn_call.args[2] = {0, 7}
    /\ fn_call.ret = [panic |-> FALSE, prev |-> fn_call.args[2], entries |-> <<>>]

----------------------------------------------------------------------------
(* parse_cpu_counters on the fields of a line (cpu.rs:63-89) *)

\* the largest number of fields of a line
MaxFields == 11

\* the values of the fields of a line: powers of two, so that a sum tells
\* which fields are in it; all ones; all sevens
FieldValues ==
    UNION {{[k \in 1..n |-> Pow2(k - 1)], [k \in 1..n |-> 1], [k \in 1..n |-> 7]} :
              n \in 0..MaxFields}

FieldSeparators == {<<" ">>, <<"\t">>, <<" ", " ">>}

\* what follows the last field: nothing (the line ends with the field), or
\* a delimiter
FieldTrailers == {<<>>, <<" ">>}

\* the text of a line after its key: every field preceded by the separator
RECURSIVE FieldText(_, _)
FieldText(values, sep) ==
    IF values = <<>> THEN <<>>
    ELSE sep \o itoa_usize(Head(values)) \o FieldText(Tail(values), sep)

InitCpuCounters ==
    /\ InitIdle
    /\ fn_call \in {FnCall("parse_cpu_counters", <<values, sep, trailer>>) :
                       values \in FieldValues, sep \in FieldSeparators,
                       trailer \in FieldTrailers}

CallParseCpuCounters ==
    /\ Pending("parse_cpu_counters")
    /\ Return(parse_cpu_counters(FieldText(fn_call.args[1], fn_call.args[2])
                                 \o fn_call.args[3]))
    /\ Idle

SpecCpuCounters == InitCpuCounters /\ [][CallParseCpuCounters]_vars

\* the sum of the first n of the values
RECURSIVE SumFirst(_, _)
SumFirst(values, n) ==
    IF n = 0 \/ values = <<>> THEN 0
    ELSE Head(values) + SumFirst(Tail(values), n - 1)

\* C21: total is the sum of the fields of the line up to and including the
\* 9th, no field beyond the 9th contributes to it, and idle is the value of
\* the 4th field whenever the line has at least four fields.
C21_CpuCounters ==
    Returned("parse_cpu_counters") =>
        /\ fn_call.ret.total = U64(SumFirst(fn_call.args[1], 9))
        /\ Len(fn_call.args[1]) >= 4 => fn_call.ret.idle = U64(fn_call.args[1][4])

\* the fields the loop has passed to `total += num` (cpu.rs:76-83): those
\* followed by a delimiter, up to and including the 10th
FieldsFlushed(values, trailer) ==
    IF trailer = <<>> /\ values # <<>> THEN Len(values) - 1 ELSE Len(values)

\* the same, for what the code counts: the fields that are followed by a
\* delimiter, up to and including the 10th
C21_CpuCountersFlushed ==
    Returned("parse_cpu_counters") =>
        /\ fn_call.ret.total =
              U64(SumFirst(fn_call.args[1],
                           IF FieldsFlushed(fn_call.args[1], fn_call.args[3]) < 10
                           THEN FieldsFlushed(fn_call.args[1], fn_call.args[3]) ELSE 10))
        /\ fn_call.ret.idle =
              IF FieldsFlushed(fn_call.args[1], fn_call.args[3]) >= 4
              THEN U64(fn_call.args[1][4]) ELSE U64Zero

\* eleven fields, each followed by a delimiter: the first ten are summed
C21_FlushedWitness ==
    /\ Returned("parse_cpu_counters")
    /\ Len(fn_call.args[1]) = 11
    /\ fn_call.args[1][11] = 1024
    /\ fn_call.args[3] = <<" ">>
    /\ fn_call.ret = [total |-> U64(1023), idle |-> U64(8)]

----------------------------------------------------------------------------
(* parse_network_counters on the fields of a line (network.rs:81-112) *)

InitNetCounters ==
    /\ InitIdle
    /\ fn_call \in {FnCall("parse_network_counters", <<values, sep, trailer>>) :
                       values \in FieldValues, sep \in FieldSeparators,
                       trailer \in FieldTrailers}

CallParseNetworkCounters ==
    /\ Pending("parse_network_counters")
    /\ Return(parse_network_counters(FieldText(fn_call.args[1], fn_call.args[2])
                                     \o fn_call.args[3]))
    /\ Idle

SpecNetCounters == InitNetCounters /\ [][CallParseNetworkCounters]_vars

\* C22: received-bytes is the first field after the colon and
\* transmitted-bytes the 9th, also when the 9th field ends the line with no
\* delimiter after it.
C22_NetCounters ==
    Returned("parse_network_counters") =>
        /\ Len(fn_call.args[1]) >= 1 => fn_call.ret[1] = U64(fn_call.args[1][1])
        /\ Len(fn_call.args[1]) >= 9 => fn_call.ret[2] = U64(fn_call.args[1][9])

\* the same, for the lines whose first field does not end the line
C22_NetCountersDelimited ==
    Returned("parse_network_counters") =>
        /\ (Len(fn_call.args[1]) >= 2 \/ (Len(fn_call.args[1]) = 1 /\ fn_call.args[3] # <<>>))
              => fn_call.ret[1] = U64(fn_call.args[1][1])
        /\ Len(fn_call.args[1]) >= 9 => fn_call.ret[2] = U64(fn_call.args[1][9])
        /\ Len(fn_call.args[1]) < 9 => fn_call.ret[2] = U64Zero

\* nine fields, the 9th ending the line
C22_DelimitedWitness ==
    /\ Returned("parse_network_counters")
    /\ Len(fn_call.args[1]) = 9
    /\ fn_call.args[3] = <<>>
    /\ fn_call.ret = <<U64(1), U64(256)>>

----------------------------------------------------------------------------
(* parse_disks (disk.rs:59-100) *)

\* disk.rs:92-100
RECURSIVE parse_u64_loop(_, _, _)
parse_u64_loop(bytes, i, num) ==
    IF i > Len(bytes) THEN num
    ELSE IF is_ascii_digit(bytes[i])
    THEN parse_u64_loop(bytes, i + 1,
            wrapping_add(wrapping_mul(num, 10), U64(DigitValue(bytes[i]))))
    ELSE parse_u64_loop(bytes, i + 1, num)

parse_u64(bytes) == parse_u64_loop(bytes, 1, U64Zero)

\* disk.rs:64-66: the pieces of the line between spaces and tabs that are
\* not empty; acc = [fields, cur], cur being the piece that is being read
RECURSIVE split_fields_loop(_, _, _)
split_fields_loop(line, i, acc) ==
    IF i > Len(line)
    THEN IF acc.cur = <<>> THEN acc.fields ELSE Append(acc.fields, acc.cur)
    ELSE IF line[i] = " " \/ line[i] = "\t"
    THEN split_fields_loop(line, i + 1,
            IF acc.cur = <<>> THEN acc
            ELSE [fields |-> Append(acc.fields, acc.cur), cur |-> <<>>])
    ELSE split_fields_loop(line, i + 1, [acc EXCEPT !.cur = Append(@, line[i])])

split_fields(line) == split_fields_loop(line, 1, [fields |-> <<>>, cur |-> <<>>])

\* disk.rs:72-86 (fields count from 1 here); an Option is <<>> or <<x>>
disk_line_named(fields, name) ==
    IF should_skip_device(name) THEN <<>>
    ELSE <<[name |-> name, counters |-> <<parse_u64(fields[6]), parse_u64(fields[10])>>]>>

\* disk.rs:68-72
disk_line_fields(fields) ==
    IF Len(fields) < 10 THEN <<>> ELSE disk_line_named(fields, fields[3])

\* disk.rs:64-87; st = [result, trace], trace recording what each line yielded
disk_line_insert(st, line, parsed) ==
    [result |-> IF parsed = <<>> THEN st.result
                ELSE Put(st.result, parsed[1].name, parsed[1].counters),
     trace  |-> Append(st.trace, [line |-> line, yielded |-> parsed])]

disk_line(st, line) == disk_line_insert(st, line, disk_line_fields(split_fields(line)))

\* disk.rs:63, the position of the newline that ends the piece starting at
\* i, Len(data) + 1 when there is none
RECURSIVE split_line_end(_, _)
split_line_end(data, i) ==
    IF i > Len(data) \/ data[i] = "\n" THEN i ELSE split_line_end(data, i + 1)

\* disk.rs:63-87, the loop from the piece starting at line_start and ending
\* before line_end
RECURSIVE parse_disks_loop(_, _, _, _)
parse_disks_loop(data, line_start, line_end, st) ==
    IF line_end > Len(data)
    THEN disk_line(st, SubSeq(data, line_start, line_end - 1))
    ELSE parse_disks_loop(data, line_end + 1, split_line_end(data, line_end + 1),
            disk_line(st, SubSeq(data, line_start, line_end - 1)))

parse_disks(data) ==
    parse_disks_loop(data, 1, split_line_end(data, 1), [result |-> EmptyMap, trace |-> <<>>])

(* parse_disks of main.rs (main.rs:509-602) *)

\* main.rs:574-591
main_disk_skip(name) ==
    \/ starts_with(name, <<"l", "o", "o", "p">>)
    \/ starts_with(name, <<"r", "a", "m">>)
    \/ starts_with(name, <<"d", "m", "-">>)
    \/ /\ name # <<>>
       /\ is_ascii_digit(name[Len(name)])
       /\ (find(name, "p") # 0 \/ name[1] \in {"s", "h", "v"})

\* main.rs:528-552, the loop over the bytes of the line from position j on
\* (positions count from 1)
RECURSIVE main_disk_fields_loop(_, _, _)
main_disk_fields_loop(line, j, ps) ==
    IF j > Len(line) THEN ps
    ELSE IF is_ascii_digit(line[j])
    THEN main_disk_fields_loop(line, j + 1,
            [ps EXCEPT !.name_start = IF ~ps.in_num /\ ps.field = 2 THEN j ELSE @,
                       !.num = wrapping_add(wrapping_mul(@, 10), U64(DigitValue(line[j]))),
                       !.in_num = TRUE])
    ELSE IF ps.in_num
    THEN IF ps.field = 9
         THEN [ps EXCEPT !.write_sectors = ps.num]
         ELSE main_disk_fields_loop(line, j + 1,
                 [ps EXCEPT !.name_len = IF ps.field = 2 THEN j - ps.name_start ELSE @,
                            !.read_sectors = IF ps.field = 5 THEN ps.num ELSE @,
                            !.field = @ + 1, !.num = U64Zero, !.in_num = FALSE])
    ELSE main_disk_fields_loop(line, j + 1, ps)

\* main.rs:554-560
main_disk_fields_end(ps) ==
    IF ps.field < 9 /\ ps.in_num /\ ps.field = 5
    THEN [ps EXCEPT !.read_sectors = ps.num]
    ELSE ps

\* main.rs:562-596
main_disk_line_named(ps, name) ==
    IF ps.name_len = 0 \/ main_disk_skip(name) THEN <<>>
    ELSE <<[name |-> name, counters |-> <<ps.read_sectors, ps.write_sectors>>]>>

main_disk_line_parsed(line, ps) ==
    main_disk_line_named(ps, SubSeq(line, ps.name_start, (ps.name_start + ps.name_len) - 1))

main_disk_line(st, line) ==
    disk_line_insert(st, line,
        main_disk_line_parsed(line,
            main_disk_fields_end(main_disk_fields_loop(line, 1,
                [field |-> 0, num |-> U64Zero, in_num |-> FALSE, name_start |-> 1,
                 name_len |-> 0, read_sectors |-> U64Zero, write_sectors |-> U64Zero]))))

\* main.rs:514-598, the loop from the start of a line on
RECURSIVE main_parse_disks_loop(_, _, _)
main_parse_disks_loop(data, line_start, st) ==
    IF line_start > Len(data) THEN st
    ELSE main_parse_disks_loop(data, net_line_scan(data, line_start) + 1,
            main_disk_line(st,
                SubSeq(data, line_start,
                       IF data[net_line_scan(data, line_start)] = "\n"
                       THEN net_line_scan(data, line_start) - 1
                       ELSE net_line_scan(data, line_start))))

main_parse_disks(data) ==
    main_parse_disks_loop(data, 1, [result |-> EmptyMap, trace |-> <<>>])

\* ---- lines of the disk source

MaxDiskLines == 2

DISK_SDA == <<" ", " ", " ", "8", " ", " ", " ", " ", " ", " ", " ", "0", " ",
      "s", "d", "a", " ", "3", "3", " ", "4", "4", " ", "5", "5", " ",
      "6", "6", " ", "7", "7", " ", "8", "8", " ", "9", "9", " ", "1",
      "1", "0">>

DISK_SDA_TABS == <<"8", "\t", "0", "\t", "s", "d", "a", "\t", "3", "\t", "4", "\t",
      "5", "\t", "6", "\t", "7", "\t", "8", "\t", "9">>

DISK_SDB_9 == <<" ", " ", " ", "8", " ", " ", " ", " ", " ", " ", "1", "6", " ",
      "s", "d", "b", " ", "3", "3", " ", "4", "4", " ", "5", "5", " ",
      "6", "6", " ", "7", "7", " ", "8", "8">>

DISK_SDB_3 == <<"8", " ", "1", "6", " ", "s", "d", "b">>

DISK_SDA1 == <<" ", " ", " ", "8", " ", " ", " ", " ", " ", " ", " ", "1", " ",
      "s", "d", "a", "1", " ", "3", " ", "4", " ", "5", " ", "6", " ",
      "7", " ", "8", " ", "9", " ", "1", "0">>

DISK_NVME0N1 == <<" ", "2", "5", "9", " ", " ", " ", " ", " ", " ", " ", "0", " ",
      "n", "v", "m", "e", "0", "n", "1", " ", "3", " ", "4", " ", "5",
      " ", "6", " ", "7", " ", "8", " ", "9", " ", "1", "0">>

DISK_NVME0N1P1 == <<" ", "2", "5", "9", " ", " ", " ", " ", " ", " ", " ", "1", " ",
      "n", "v", "m", "e", "0", "n", "1", "p", "1", " ", "3", " ", "4",
      " ", "5", " ", "6", " ", "7", " ", "8", " ", "9", " ", "1", "0">>

DISK_LOOP0 == <<" ", " ", " ", "7", " ", " ", " ", " ", " ", " ", " ", "0", " ",
      "l", "o", "o", "p", "0", " ", "3", " ", "4", " ", "5", " ", "6",
      " ", "7", " ", "8", " ", "9", " ", "1", "0">>

DISK_MMCBLK0 == <<" ", "1", "7", "9", " ", "0", " ", "m", "m", "c", "b", "l", "k",
      "0", " ", "3", " ", "4", " ", "5", " ", "6", " ", "7", " ", "8",
      " ", "9", " ", "1", "0", " ">>

DiskLines ==
    {<<>>, DISK_SDA, DISK_SDA_TABS, DISK_SDB_9, DISK_SDB_3, DISK_SDA1, DISK_NVME0N1,
     DISK_NVME0N1P1, DISK_LOOP0, DISK_MMCBLK0}

DiskSources ==
    {src \in [lines : SeqsUpTo(DiskLines, MaxDiskLines), newline : BOOLEAN] :
        src.newline \/ src.lines = <<>> \/ src.lines[Len(src.lines)] # <<>>}

InitDiskParse ==
    /\ InitIdle
    /\ fn_call \in {FnCall(fn, <<src.lines, src.newline>>) :
                       fn \in {"parse_disks", "main_parse_disks"}, src \in DiskSources}

CallParseDisks ==
    /\ Pending("parse_disks")
    /\ Return(parse_disks(StatBuffer(fn_call.args[1], fn_call.args[2])))
    /\ Idle

CallMainParseDisks ==
    /\ Pending("main_parse_disks")
    /\ Return(main_parse_disks(StatBuffer(fn_call.args[1], fn_call.args[2])))
    /\ Idle

NextDiskParse == CallParseDisks \/ CallMainParseDisks

SpecDiskParse == InitDiskParse /\ [][NextDiskParse]_vars

\* the fields of a line: where they start, the k-th of them (from 0), and
\* the decimal value of a field of digits
IsBlank(c) == c = " " \/ c = "\t"

FieldStarts(line) ==
    {i \in DOMAIN line : ~IsBlank(line[i]) /\ (i = 1 \/ IsBlank(line[i - 1]))}

FieldStart(line, k) ==
    CHOOSE i \in FieldStarts(line) : Cardinality({j \in FieldStarts(line) : j < i}) = k

FieldEnd(line, i) ==
    CHOOSE e \in i..Len(line) :
        /\ \A j \in i..e : ~IsBlank(line[j])
        /\ e = Len(line) \/ IsBlank(line[e + 1])

FieldAt(line, k) == SubSeq(line, FieldStart(line, k), FieldEnd(line, FieldStart(line, k)))

RECURSIVE DecValue(_)
DecValue(digits) ==
    IF digits = <<>> THEN 0
    ELSE DecValue(SubSeq(digits, 1, Len(digits) - 1)) * 10 + DigitValue(digits[Len(digits)])

DiskRecordAsStated(line) ==
    IF Cardinality(FieldStarts(line)) < 10 THEN <<>>
    ELSE IF should_skip_device(FieldAt(line, 2)) THEN <<>>
    ELSE <<[name     |-> FieldAt(line, 2),
            counters |-> <<U64(DecValue(FieldAt(line, 5))),
                           U64(DecValue(FieldAt(line, 9)))>>]>>

DiskLinesAsStated(lines, trace) ==
    /\ Len(trace) >= Len(lines)
    /\ \A k \in DOMAIN trace :
          IF k <= Len(lines)
          THEN trace[k] = [line |-> lines[k], yielded |-> DiskRecordAsStated(lines[k])]
          ELSE trace[k] = [line |-> <<>>, yielded |-> <<>>]

\* C23: parse_disks rejects every line with fewer than 10 fields; for every
\* other line whose name (field 2, from 0) passes the device filter it
\* records that name with read-sectors from field 5 and write-sectors from
\* field 9.
C23_DiskFields ==
    (Returned("parse_disks") \/ Returned("main_parse_disks")) =>
        DiskLinesAsStated(fn_call.args[1], fn_call.ret.trace)

\* the same, for parse_disks of disk.rs alone
C23_DiskFieldsModule ==
    Returned("parse_disks") => DiskLinesAsStated(fn_call.args[1], fn_call.ret.trace)

\* a short line, then a device line with tabs
C23_ModuleWitness ==
    /\ Returned("parse_disks")
    /\ fn_call.args[1] = <<DISK_SDB_9, DISK_SDA_TABS>>
    /\ fn_call.ret.result = Put(EmptyMap, SDA, <<U64(5), U64(9)>>)

----------------------------------------------------------------------------
(* The rates of one entity (network.rs:122-137, disk.rs:110-126) *)

RateCounters == {0, 1, 3, 1000}

RateReadings == RateCounters \X RateCounters

InitRates ==
    /\ InitIdle
    /\ fn_call \in {FnCall("calculate_rates", <<cur, prev, elapsed>>) :
                       cur \in RateReadings, prev \in RateReadings,
                       elapsed \in ElapsedInputs}

\* the rates calculate_network_rates and calculate_disk_rates compute for an
\* entity with the readings cur and the stored readings prev
CallRates ==
    /\ Pending("calculate_rates")
    /\ Return([net  |-> calculate_network_throughput(
                           fn_call.args[1][1], fn_call.args[1][2],
                           fn_call.args[2][1], fn_call.args[2][2],
                           FloorElapsed(fn_call.args[3])),
               disk |-> calculate_disk_io_rates(
                           fn_call.args[1][1], fn_call.args[1][2],
                           fn_call.args[2][1], fn_call.args[2][2],
                           FloorElapsed(fn_call.args[3]))])
    /\ Idle

SpecRates == InitRates /\ [][CallRates]_vars

\* max(elapsed, 1e-8) in seconds, elapsed being a number of ticks
ElapsedOrEpsilon(elapsed) == Norm(IF elapsed > 1 THEN elapsed ELSE 1, TicksPerSec, 0)

\* rate = (cur - prev) * scale / max(elapsed, 1e-8): the divisor is above 0
\* and the rate times the divisor is the scaled difference
RateAsStated(rate, cur, prev, scale, elapsed) ==
    /\ FLeq(FZero, rate)
    /\ FLess(FZero, ElapsedOrEpsilon(elapsed))
    /\ cur >= prev => FMul(rate, ElapsedOrEpsilon(elapsed)) = F64((cur - prev) * scale)

\* C24: for a counter whose reading is not below the stored one, the rate is
\* (current - previous) * scale / max(elapsed, 1e-8), with scale 1 for
\* network bytes and 512 for disk sectors; no elapsed time, zero and
\* negative included, makes the divisor zero, and every rate is finite and
\* not negative.
C24_Rates ==
    Returned("calculate_rates") =>
        \A c \in {1, 2} :
           /\ RateAsStated(fn_call.ret.net[c], fn_call.args[1][c], fn_call.args[2][c],
                           1, fn_call.args[3])
           /\ RateAsStated(fn_call.ret.disk[c], fn_call.args[1][c], fn_call.args[2][c],
                           DISK_SECTOR_SIZE, fn_call.args[3])

\* an elapsed time of zero with one counter advanced by 3: 3e8 bytes per
\* second, 512 times that for sectors
C24_Witness ==
    /\ Returned("calculate_rates")
    /\ fn_call.args = <<(<<3, 0>>), (<<0, 0>>), 0>>
    /\ fn_call.ret.net = <<F64(3 * TicksPerSec), FZero>>
    /\ fn_call.ret.disk[1] = FMul(F64(3 * TicksPerSec), F64(DISK_SECTOR_SIZE))

----------------------------------------------------------------------------
(* Entities absent from a cycle's source *)

Restrict(m, keep) == [i \in (DOMAIN m) \cap keep |-> m[i]]

EntryNames(entries, field) == {entries[k][field] : k \in DOMAIN entries}

\* an absent entity: no entry, stored counters and adaptive state untouched
AbsentUntouched(parsed, prev, prev_after, states, states_after, names) ==
    \A i \in (DOMAIN prev) \ (DOMAIN parsed) :
        /\ i \notin names
        /\ i \in DOMAIN prev_after /\ prev_after[i] = prev[i]
        /\ i \in DOMAIN states_after /\ states_after[i] = states[i]

\* the list of the cycle that has just run, had the entries of the entities
\* that were absent from the preceding cycle not been stored
NetEntriesWithoutStale ==
    net_loop([prev      |-> Restrict(net_prev, DOMAIN net_call.parsed),
              max_rates |-> Restrict(net_max_rates, DOMAIN net_call.parsed),
              entries   |-> <<>>, before |-> EmptyMap, rates |-> EmptyMap],
             net_call'.parsed, net_call'.order, net_call'.elapsed).entries

DiskEntriesWithoutStale ==
    disk_loop([prev      |-> Restrict(disk_prev, DOMAIN disk_call.parsed),
               max_rates |-> Restrict(disk_max_rates, DOMAIN disk_call.parsed),
               entries   |-> <<>>, before |-> EmptyMap, rates |-> EmptyMap],
              disk_call'.parsed, disk_call'.order, disk_call'.elapsed).entries

C25_AbsentStep ==
    /\ NetCalled =>
          AbsentUntouched(net_call'.parsed, net_prev, net_prev', net_max_rates,
                          net_max_rates', EntryNames(net_entries', "iface"))
    /\ DiskCalled =>
          AbsentUntouched(disk_call'.parsed, disk_prev, disk_prev', disk_max_rates,
                          disk_max_rates', EntryNames(disk_entries', "device"))

C25_Step ==
    /\ C25_AbsentStep
    /\ NetCalled => net_entries' = NetEntriesWithoutStale
    /\ DiskCalled => disk_entries' = DiskEntriesWithoutStale

\* C25: an entity absent from a cycle's source gets no entry in that cycle
\* and its stored counters and adaptive state stay as they are; the stored
\* entries of absent entities have no visible effect: the list of every
\* later cycle is what it would be without them, also when the entity is in
\* the source again.
C25_StaleNoEffect == [][C25_Step]_vars

\* the first half alone: absent entities get no entry and keep their state
C25_AbsentUntouched == [][C25_AbsentStep]_vars

\* an interface with a raised baseline, absent from the last cycle
C25_AbsentWitness ==
    /\ calls.net >= 2
    /\ ETH0 \in DOMAIN net_prev
    /\ ETH0 \notin DOMAIN net_call.parsed
    /\ FLess(FOne, net_max_rates[ETH0].max_rate)
    /\ net_entries = <<>>

----------------------------------------------------------------------------
(* The baseline the levels of a cycle are computed against *)

\* the max_rate an entity has before a cycle: the stored one, or that of a
\* new state
MaxRateBefore(states, i) ==
    IF i \in DOMAIN states THEN states[i].max_rate ELSE FOne

\* rates are those of the cycle, max_rate the stored one after it
BaselineCovers(rates, old_max, max_rate) ==
    /\ FLeq(FMax(rates[1], rates[2]), max_rate)
    /\ FLess(max_rate, old_max) =>
          /\ max_rate = FDiv(old_max, F64(2))
          /\ FLess(rates[1], max_rate)
          /\ FLess(rates[2], max_rate)

C26_Step ==
    /\ NetCalled =>
          /\ \A i \in DOMAIN net_call'.parsed :
                BaselineCovers(net_call'.rates[i], MaxRateBefore(net_max_rates, i),
                               net_max_rates'[i].max_rate)
          /\ \A k \in DOMAIN net_entries' :
                /\ net_entries'[k].rx_level =
                      LevelAsStated(net_call'.rates[net_entries'[k].iface][1],
                                    net_max_rates'[net_entries'[k].iface].max_rate)
                /\ net_entries'[k].tx_level =
                      LevelAsStated(net_call'.rates[net_entries'[k].iface][2],
                                    net_max_rates'[net_entries'[k].iface].max_rate)
    /\ DiskCalled =>
          /\ \A i \in DOMAIN disk_call'.parsed :
                BaselineCovers(disk_call'.rates[i], MaxRateBefore(disk_max_rates, i),
                               disk_max_rates'[i].max_rate)
          /\ \A k \in DOMAIN disk_entries' :
                /\ disk_entries'[k].read_level =
                      LevelAsStated(disk_call'.rates[disk_entries'[k].device][1],
                                    disk_max_rates'[disk_entries'[k].device].max_rate)
                /\ disk_entries'[k].write_level =
                      LevelAsStated(disk_call'.rates[disk_entries'[k].device][2],
                                    disk_max_rates'[disk_entries'[k].device].max_rate)

\* C26: where the levels of an entity are computed, after the update of
\* max_rate and the decay step of the same cycle, max(rate_a, rate_b) <=
\* max_rate; on a cycle where decay fires the levels are computed against
\* the halved max_rate and both rates are strictly below it.
C26_RatesWithinBaseline == [][C26_Step]_vars

\* a cycle of 11 s without traffic on an interface that has had traffic:
\* decay has fired and the interface is listed with both levels 0
C26_Witness ==
    /\ ETH0 \in DOMAIN net_call.parsed
    /\ net_call.elapsed = 11 * TicksPerSec
    /\ net_call.rates[ETH0] = <<FZero, FZero>>
    /\ net_max_rates[ETH0].has_had_traffic
    /\ net_max_rates[ETH0].time_below_half_max = 0
    /\ \E k \in DOMAIN net_entries :
          /\ net_entries[k].iface = ETH0
          /\ net_entries[k].rx_level = 0
          /\ net_entries[k].tx_level = 0

----------------------------------------------------------------------------
(* The time below half of the baseline, after a cycle *)

TimeBelowInRange(state) ==
    /\ 0 <= state.time_below_half_max
    /\ state.time_below_half_max < RATE_DECAY_TIME_SECS * TicksPerSec

\* C27: after every cycle every entity's time_below_half_max is at least 0
\* and below RATE_DECAY_TIME_SECS, whatever the rates and the elapsed times
\* (zero, negative and above the threshold included).
C27_TimeBelowInRange ==
    /\ \A i \in DOMAIN net_max_rates : TimeBelowInRange(net_max_rates[i])
    /\ \A i \in DOMAIN disk_max_rates : TimeBelowInRange(disk_max_rates[i])

\* a device 5 s below half of its baseline, after a cycle of 0 s
C27_Witness ==
    /\ disk_call.elapsed = FloorElapsed(0)
    /\ \E i \in DOMAIN disk_call.parsed :
          disk_max_rates[i].time_below_half_max > 5 * TicksPerSec

----------------------------------------------------------------------------
(* The update of one entity's state in one cycle (network.rs:144-163,
   disk.rs:135-154), on its own *)

BaselineMaxRates == {FOne, F64(1000), FDiv(FOne, F64(2))}

BaselineTimes == {0, 1, TicksPerSec}

BaselineRates == {FZero, FDiv(FOne, F64(4)), FOne, F64(400), F64(500), F64(2000)}

\* elapsed times after elapsed.max(1e-8), up to twice the decay time
BaselineElapsed ==
    {1, 5 * TicksPerSec, 9 * TicksPerSec, 10 * TicksPerSec, 20 * TicksPerSec}

InitBaseline ==
    /\ InitIdle
    /\ fn_call \in {FnCall(fn, <<max_rate, time, seen, combined, elapsed>>) :
                       fn \in {"net_state", "disk_state"},
                       max_rate \in BaselineMaxRates, time \in BaselineTimes,
                       seen \in BOOLEAN, combined \in BaselineRates,
                       elapsed \in BaselineElapsed}

CallNetState ==
    /\ Pending("net_state")
    /\ Return(net_state([max_rate |-> fn_call.args[1],
                         time_below_half_max |-> fn_call.args[2],
                         has_had_traffic |-> fn_call.args[3]],
                        fn_call.args[4], fn_call.args[5]))
    /\ Idle

CallDiskState ==
    /\ Pending("disk_state")
    /\ Return(disk_state([max_rate |-> fn_call.args[1],
                          time_below_half_max |-> fn_call.args[2],
                          has_had_io |-> fn_call.args[3]],
                         fn_call.args[4], fn_call.args[5]))
    /\ Idle

NextBaseline == CallNetState \/ CallDiskState

SpecBaseline == InitBaseline /\ [][NextBaseline]_vars

\* max_rate and time are those before the cycle, state the one after it
OneBaselineChange(max_rate, time, combined, elapsed, state) ==
    /\ state.max_rate \in {max_rate, combined, FDiv(max_rate, F64(2))}
    /\ state.max_rate = combined /\ combined # max_rate => FLess(max_rate, combined)
    /\ FLess(max_rate, combined) => state.max_rate = combined
    /\ FLess(state.max_rate, max_rate) =>
          /\ state.max_rate = FDiv(max_rate, F64(2))
          /\ time + elapsed >= RATE_DECAY_TIME_SECS * TicksPerSec
          /\ state.time_below_half_max = 0

\* C28: in one cycle an entity's max_rate stays the same, becomes the
\* combined rate of the cycle (only when that is larger than the old value)
\* or becomes exactly half of the old value; it is never halved more than
\* once in a cycle, however long the elapsed time, and the time beyond the
\* decay time is discarded when decay fires.
C28_OneBaselineChange ==
    (Returned("net_state") \/ Returned("disk_state")) =>
        OneBaselineChange(fn_call.args[1], fn_call.args[2], fn_call.args[4],
                          fn_call.args[5], fn_call.ret)

\* a cycle of twice the decay time on an interface already 1 s below half of
\* its baseline: max_rate is halved once and no time is kept
C28_Witness ==
    /\ Returned("net_state")
    /\ fn_call.args[2] = TicksPerSec
    /\ fn_call.args[5] = 2 * RATE_DECAY_TIME_SECS * TicksPerSec
    /\ fn_call.args[1] = F64(1000)
    /\ fn_call.ret.max_rate = F64(500)
    /\ fn_call.ret.time_below_half_max = 0

----------------------------------------------------------------------------
(* Cycles over two entities, iterated in either order *)

MaxOrderCalls == 2

SDB == <<"s", "d", "b">>

OrderIfaces == {ETH0, WLAN0}

OrderDevices == {SDA, SDB}

OrderElapsed == {0, 11 * TicksPerSec}

\* the readings of the two entities: the counters of the first grow by 1, those
\* of the second by 2
OrderReadings(i) ==
    IF i \in {ETH0, SDA} THEN {<<0, 0>>, <<1, 0>>} ELSE {<<0, 0>>, <<2, 1>>}

OrderParsedInputs(entities) ==
    UNION {{p \in [S -> {<<0, 0>>, <<1, 0>>, <<2, 1>>}] :
               \A i \in S : p[i] \in OrderReadings(i)} : S \in SUBSET entities}

OrderNetworkCycle ==
    /\ calls.disk = 0
    /\ calls.net < MaxOrderCalls
    /\ \E elapsed \in OrderElapsed :
         \E parsed \in OrderParsedInputs(OrderIfaces) :
            \E order \in Orders(DOMAIN parsed) :
               calculate_network_rates(elapsed, parsed, order)
    /\ calls' = [calls EXCEPT !.net = @ + 1]
    /\ UNCHANGED <<disk_vars, cpu_vars, fn_call, main_loop>>

OrderDiskCycle ==
    /\ calls.net = 0
    /\ calls.disk < MaxOrderCalls
    /\ \E elapsed \in OrderElapsed :
         \E parsed \in OrderParsedInputs(OrderDevices) :
            \E order \in Orders(DOMAIN parsed) :
               calculate_disk_rates(elapsed, parsed, order)
    /\ calls' = [calls EXCEPT !.disk = @ + 1]
    /\ UNCHANGED <<net_vars, cpu_vars, fn_call, main_loop>>

NextOrder == OrderNetworkCycle \/ OrderDiskCycle

SpecOrder == Init /\ [][NextOrder]_vars

\* what the loop of calculate_network_rates leaves when `parsed` is iterated
\* in `order`: the stored maps and the list as main sorts it (main.rs:158)
NetOutcome(parsed, order, elapsed) ==
    LET st == net_loop([prev |-> net_prev, max_rates |-> net_max_rates,
                        entries |-> <<>>, before |-> EmptyMap, rates |-> EmptyMap],
                       parsed, order, elapsed)
    IN  <<st.prev, st.max_rates, sort_by(st.entries)>>

\* the same for calculate_disk_rates (main.rs:163)
DiskOutcome(parsed, order, elapsed) ==
    LET st == disk_loop([prev |-> disk_prev, max_rates |-> disk_max_rates,
                         entries |-> <<>>, before |-> EmptyMap, rates |-> EmptyMap],
                        parsed, order, elapsed)
    IN  <<st.prev, st.max_rates, sort_by(st.entries)>>

C29_Step ==
    /\ NetCalled =>
          \A order \in Orders(DOMAIN net_call'.parsed) :
             NetOutcome(net_call'.parsed, order, net_call'.elapsed)
                = <<net_prev', net_max_rates', sort_by(net_entries')>>
    /\ DiskCalled =>
          \A order \in Orders(DOMAIN disk_call'.parsed) :
             DiskOutcome(disk_call'.parsed, order, disk_call'.elapsed)
                = <<disk_prev', disk_max_rates', sort_by(disk_entries')>>

\* C29: the update of one network or disk entity reads and writes only that
\* entity's previous counters and adaptive state, so the stored state after a
\* cycle and the sorted lists are the same for every order in which the
\* parsed entities are iterated.
C29_OrderIndependent == [][C29_Step]_vars

\* a cycle that iterated wlan0 before eth0, the two having different
\* baselines and both being listed
C29_Witness ==
    /\ net_call.order = <<WLAN0, ETH0>>
    /\ net_max_rates[ETH0].max_rate # net_max_rates[WLAN0].max_rate
    /\ Len(net_entries) = 2
    /\ net_entries[1].iface = WLAN0

----------------------------------------------------------------------------
(* The identifiers of a list *)

\* no two entries of the list carry the same identifier
Distinct(ids) == \A j, k \in DOMAIN ids : j # k => ids[j] # ids[k]

CpuIds == [j \in DOMAIN cpu_entries |-> cpu_entries[j].id]

NetIds == [j \in DOMAIN net_entries |-> net_entries[j].iface]

DiskIds == [j \in DOMAIN disk_entries |-> disk_entries[j].device]

\* C30: in every cycle's snapshot the identifiers within each of the CPU,
\* network and disk lists are pairwise distinct, whatever the source buffers
\* contain, a CPU index, an interface name or a device name on more than one
\* line included.
C30_DistinctIds == Distinct(CpuIds) /\ Distinct(NetIds) /\ Distinct(DiskIds)

\* the network and the disk list, built from the HashMaps of the parsers
C30_NetDiskDistinct == Distinct(NetIds) /\ Distinct(DiskIds)

\* both interfaces and, in another cycle, both devices listed
C30_NetDiskWitness == Len(net_entries) = 2 \/ Len(disk_entries) = 2

====
